---- MODULE Spec2Model ----
(***************************************************************************)
(* A model of the kashshaf-reuse text reuse pipeline: the windower         *)
(* (window.rs), the Smith-Waterman aligner (align.rs), the edge builder    *)
(* and the shared edge-id counter (compare.rs) and the merger (merge.rs).  *)
(*                                                                         *)
(* Conventions.  Rust slices are 0-based, TLA+ sequences 1-based: the      *)
(* element v[k] of the code is v[k + 1] here.  f32 quantities are kept as  *)
(* exact rationals <<num, den>> in lowest terms with den > 0; IDF weights  *)
(* are a number of halves (1.0 is 2).  None is [some |-> FALSE].           *)
(***************************************************************************)
EXTENDS Integers, Sequences, FiniteSets, TLC

VARIABLES
    params,        \* the ComparisonParams of the run
    EDGE_COUNTER,  \* the process-wide AtomicU64 of compare.rs
    window_a,      \* aligner: window of book A handed to the alignment task
    window_b,      \* aligner: window of book B
    weights,       \* aligner: [use |-> BOOLEAN, a |-> weights_a, b |-> weights_b]
    alignment,     \* aligner: Option<Alignment> returned by the aligner
    edge,          \* aligner: Option<ReuseEdge> built from the alignment
    al_pc,         \* aligner: position of the alignment task
    m_edges,       \* merger: the edge list handed to the merger
    m_merged,      \* merger: result of merge_overlapping_edges(m_edges)
    m_remerged,    \* merger: result of merge_overlapping_edges(m_merged)
    m_retained,    \* merger: result of remove_subsumed_edges(m_edges)
    m_pc,          \* merger: which of the calls have returned
    w_stream,      \* windower: the book stream handed to the windower
    w_with_roots,  \* windower: TRUE for generate_windows_with_roots
    w_windows,     \* windower: the Vec<Window> returned
    w_pc,          \* windower: position of the call
    c_streams,     \* comparisons: the two book streams of each comparison
    c_windows,     \* comparisons: the windows of the two books
    c_candidates,  \* comparisons: the candidate pairs (idx_a, idx_b)
    c_done,        \* comparisons: the candidate pairs whose task has run
    c_edges,       \* comparisons: the Option<ReuseEdge> each task yielded
    c_result,      \* comparisons: the edges of the returned ComparisonResult
    c_summary,     \* comparisons: the summary of the returned ComparisonResult
    c_pc,          \* comparisons: "called", "aligning" or "returned", per comparison
    f_windows_a,   \* candidate filter: the windows of the first book
    f_windows_b,   \* candidate filter: the windows of the second book
    f_candidates,  \* candidate filter: the Vec<(usize, usize)> returned
    f_pc,          \* candidate filter: position of the call
    mf_edges,      \* metric filter: the merged edges handed to the filter
    mf_filtered,   \* metric filter: the Vec<ReuseEdge> returned
    mf_pc,         \* metric filter: position of the call
    db_pages,      \* batch: the page_tokens table, the rows of each book in order
    b_pairs,       \* batch: the pairs handed to compare_book_pairs
    b_errors,      \* batch: the error of each pair whose loading failed
    b_result,      \* batch: the Result compare_book_pairs returned
    t_stream,      \* batch: the Result of the token loader on book 2
    d_cli,         \* driver: the options of the Compare command as parsed
    d_start        \* driver: `start` of the windower's while loop

AlignVars == <<window_a, window_b, weights, alignment, edge, al_pc>>
MergeVars == <<m_edges, m_merged, m_remerged, m_retained, m_pc>>
WindowVars == <<w_stream, w_with_roots, w_windows, w_pc>>
CompareVars ==
    <<c_streams, c_windows, c_candidates, c_done, c_edges, c_result, c_summary, c_pc>>
FilterVars == <<f_windows_a, f_windows_b, f_candidates, f_pc>>
MetricVars == <<mf_edges, mf_filtered, mf_pc>>
BatchVars == <<db_pages, b_pairs, b_errors, b_result, t_stream>>
DriverVars == <<d_cli, d_start>>
NonAlignVars ==
    <<MergeVars, WindowVars, CompareVars, FilterVars, MetricVars,
      BatchVars, DriverVars>>
NonMergeVars ==
    <<AlignVars, WindowVars, CompareVars, FilterVars, MetricVars,
      BatchVars, DriverVars>>
NonWindowVars ==
    <<AlignVars, MergeVars, CompareVars, FilterVars, MetricVars,
      BatchVars, DriverVars>>
NonCompareVars ==
    <<AlignVars, MergeVars, WindowVars, FilterVars, MetricVars, BatchVars, DriverVars>>
NonFilterVars ==
    <<AlignVars, MergeVars, WindowVars, CompareVars, MetricVars,
      BatchVars, DriverVars>>
NonMetricVars ==
    <<AlignVars, MergeVars, WindowVars, CompareVars, FilterVars,
      BatchVars, DriverVars>>
vars == <<params, EDGE_COUNTER, AlignVars, MergeVars, WindowVars, CompareVars, FilterVars,
          MetricVars, BatchVars, DriverVars>>

(***************************************************************************)
(* Bounds of the model.                                                    *)
(***************************************************************************)
MaxLen == 3          \* longest window handed to the aligner
MaxPos == 2          \* largest global position of an edge handed to the merger
MaxEdges == 3        \* longest edge list handed to the merger
MaxChain == 2        \* longest edge list of the span scenarios of the merger
MaxPages == 2        \* most pages of a stream handed to the windower
MaxPageLen == 3      \* most tokens on one page
MaxWin == 3          \* largest window_size and stride handed to the windower
MaxMinLen == 2       \* largest min_length handed to the windower
MaxBookLen == 4      \* tokens of the second book of a comparison
MaxFilterBook == 4   \* tokens of a book whose windows reach the candidate filter
MaxNgram == 3        \* largest ngram_size handed to the candidate filter
MaxShared == 2       \* largest min_shared_shingles handed to the candidate filter
MaxMetricEdges == 2  \* longest edge list handed to the metric filter
MaxSameLen == 5      \* tokens of a book compared with a copy of itself
MaxPagedLen == 4     \* most tokens of a book of two pages that is compared
MaxRows == 2         \* most page rows of a book in the page_tokens table
MaxBlobTokens == 1   \* most token ids in the blob of a page row
MaxDriverLen == 3    \* most tokens of the book the Compare command windows
MaxDriverWindows == 5 \* windows after which the model stops counting loop iterations
MaxCoverPos == 5     \* tokens of the books whose coverage the merge is checked on
MaxCoverEdges == 3   \* longest edge list of the coverage scenarios

(***************************************************************************)
(* Generic helpers.                                                        *)
(***************************************************************************)
Max(a, b) == IF a >= b THEN a ELSE b
Min(a, b) == IF a <= b THEN a ELSE b
Abs(a) == IF a < 0 THEN 0 - a ELSE a

RECURSIVE Gcd(_, _)
Gcd(a, b) == IF b = 0 THEN a ELSE Gcd(b, a % b)

\* n / d as a rational in lowest terms (d > 0, n >= 0)
Rat(n, d) == LET g == Gcd(n, d) IN IF g = 0 THEN <<0, 1>> ELSE <<n \div g, d \div g>>
RatLt(x, y) == x[1] * y[2] < y[1] * x[2]
RatLe(x, y) == x[1] * y[2] <= y[1] * x[2]
RatZero == <<0, 1>>
RatOne == <<1, 1>>

\* `x as i32` of a non-negative or negative quotient n / d: truncation toward zero
TruncDiv(n, d) == IF n >= 0 THEN n \div d ELSE 0 - ((0 - n) \div d)

Reverse(s) == [k \in 1..Len(s) |-> s[Len(s) + 1 - k]]

None == [some |-> FALSE]

(***************************************************************************)
(* align.rs: scoring.                                                      *)
(***************************************************************************)
\* roots_x[i - 1] guarded by the length check of align.rs:67
RootAt(roots, i) == IF i - 1 < Len(roots) THEN roots[i] ELSE 0

calculate_match_score(lemma_a, lemma_b, root_a, root_b, p) ==
    CASE p.mode = "Lemma" ->
            IF lemma_a = lemma_b THEN p.lemma_score ELSE p.mismatch_penalty
      [] p.mode = "Root" ->
            IF root_a = root_b /\ root_a # 0 THEN p.lemma_score ELSE p.mismatch_penalty
      [] p.mode = "Combined" ->
            IF lemma_a = lemma_b THEN p.lemma_score
            ELSE IF root_a = root_b /\ root_a # 0 THEN p.root_score
            ELSE p.mismatch_penalty

\* weight of a lemma id in halves; 1.0 (= 2 halves) for an id outside the vector
get_weight(lemma_id, w) ==
    IF lemma_id < Len(w) /\ w[lemma_id + 1] > 0 THEN w[lemma_id + 1] ELSE 2

\* (lemma_score as f32 * w) as i32, w = min(w_a, w_b) in halves
WeightedLemmaScore(lemma_a, lemma_b, wa, wb, p) ==
    TruncDiv(p.lemma_score * Min(get_weight(lemma_a, wa), get_weight(lemma_b, wb)), 2)

calculate_weighted_match_score(lemma_a, lemma_b, root_a, root_b, wa, wb, p) ==
    CASE p.mode = "Lemma" ->
            IF lemma_a = lemma_b THEN WeightedLemmaScore(lemma_a, lemma_b, wa, wb, p)
            ELSE p.mismatch_penalty
      [] p.mode = "Root" ->
            IF root_a = root_b /\ root_a # 0 THEN p.lemma_score ELSE p.mismatch_penalty
      [] p.mode = "Combined" ->
            IF lemma_a = lemma_b THEN WeightedLemmaScore(lemma_a, lemma_b, wa, wb, p)
            ELSE IF root_a = root_b /\ root_a # 0 THEN p.root_score
            ELSE p.mismatch_penalty

\* The aligner's input: the four sequences, the weights and the parameters.
\* in.w.use selects align_sequences_weighted over align_sequences.
AlignInput(la, lb, ra, rb, w, p) ==
    [lemmas_a |-> la, lemmas_b |-> lb, roots_a |-> ra, roots_b |-> rb, w |-> w, p |-> p]

\* s(i, j) for the 1-based DP cell (i, j)
MatchScoreAt(in, i, j) ==
    IF in.w.use
    THEN calculate_weighted_match_score(in.lemmas_a[i], in.lemmas_b[j],
             RootAt(in.roots_a, i), RootAt(in.roots_b, j), in.w.a, in.w.b, in.p)
    ELSE calculate_match_score(in.lemmas_a[i], in.lemmas_b[j],
             RootAt(in.roots_a, i), RootAt(in.roots_b, j), in.p)

(***************************************************************************)
(* align.rs: the DP fill.  h is the sequence of rows 0..n, each a sequence *)
(* of the cells 0..m, so the code's h[i * width + j] is h[i + 1][j + 1].   *)
(***************************************************************************)
RECURSIVE FillRow(_, _, _, _, _)
FillRow(in, i, prev, j, acc) ==
    IF j > Len(in.lemmas_b) THEN acc
    ELSE LET diagonal == prev[j] + MatchScoreAt(in, i, j)
             up == prev[j + 1] + in.p.gap_penalty
             left == acc[j] + in.p.gap_penalty
             score == Max(Max(Max(0, diagonal), up), left)
         IN FillRow(in, i, prev, j + 1, Append(acc, score))

RECURSIVE FillMatrix(_, _, _)
FillMatrix(in, i, h) ==
    IF i > Len(in.lemmas_a) THEN h
    ELSE FillMatrix(in, i + 1, Append(h, FillRow(in, i, h[i], 1, <<0>>)))

ZeroRow(m) == [j \in 1..(m + 1) |-> 0]

DPMatrix(in) == FillMatrix(in, 1, <<ZeroRow(Len(in.lemmas_b))>>)

\* ScanMax keeping the last of the largest cells instead of the first
RECURSIVE ScanMax_Last(_, _, _, _, _)
ScanMax_Last(h, n, m, k, best) ==
    IF k >= n * m THEN best
    ELSE LET i == (k \div m) + 1
             j == (k % m) + 1
             score == h[i + 1][j + 1]
         IN ScanMax_Last(h, n, m, k + 1,
                IF score >= best.max_score /\ score > 0
                THEN [max_score |-> score, max_i |-> i, max_j |-> j]
                ELSE best)

\* the running (max_score, max_i, max_j) of align.rs:88-92, cells in row-major order
RECURSIVE ScanMax(_, _, _, _, _)
ScanMax(h, n, m, k, best) ==
    IF k >= n * m THEN best
    ELSE LET i == (k \div m) + 1
             j == (k % m) + 1
             score == h[i + 1][j + 1]
         IN ScanMax(h, n, m, k + 1,
                IF score > best.max_score
                THEN [max_score |-> score, max_i |-> i, max_j |-> j]
                ELSE best)

MaxCell(h, n, m) == ScanMax(h, n, m, 0, [max_score |-> 0, max_i |-> 0, max_j |-> 0])

min_score_threshold(p) == TruncDiv(p.min_length * p.lemma_score, 2)

(***************************************************************************)
(* align.rs: the traceback.                                                *)
(***************************************************************************)
TraceStart ==
    [aligned_pairs |-> <<>>, gaps |-> 0, lemma_matches |-> 0, substitutions |-> 0,
     root_only_matches |-> 0, match_weight_sum |-> 0]

\* ClassifyPair with the three tests made independent instead of exclusive: a pair
\* with equal lemmas and equal non-zero roots is counted twice
ClassifyPair_Independent(in, i, j, t) ==
    LET lemma_a == in.lemmas_a[i]
        lemma_b == in.lemmas_b[j]
        root_a == RootAt(in.roots_a, i)
        root_b == RootAt(in.roots_b, j)
        lm == IF lemma_a = lemma_b THEN 1 ELSE 0
        ro == IF root_a = root_b /\ root_a # 0 THEN 1 ELSE 0
    IN [t EXCEPT !.aligned_pairs = Append(@, <<i - 1, j - 1>>),
                 !.lemma_matches = @ + lm,
                 !.root_only_matches = @ + ro,
                 !.substitutions = @ + (IF lm = 0 /\ ro = 0 THEN 1 ELSE 0)]

\* ClassifyPair counting a lemma match twice
ClassifyPair_DoubleMatch(in, i, j, t) ==
    LET lemma_a == in.lemmas_a[i]
        lemma_b == in.lemmas_b[j]
        root_a == RootAt(in.roots_a, i)
        root_b == RootAt(in.roots_b, j)
        pairs == Append(t.aligned_pairs, <<i - 1, j - 1>>)
    IN IF lemma_a = lemma_b
       THEN [t EXCEPT !.aligned_pairs = pairs, !.lemma_matches = @ + 2,
                      !.match_weight_sum =
                          IF in.w.use
                          THEN @ + Min(get_weight(lemma_a, in.w.a), get_weight(lemma_b, in.w.b))
                          ELSE @]
       ELSE IF root_a = root_b /\ root_a # 0
       THEN [t EXCEPT !.aligned_pairs = pairs, !.root_only_matches = @ + 1]
       ELSE [t EXCEPT !.aligned_pairs = pairs, !.substitutions = @ + 1]

\* one diagonal step of the traceback: record the pair and classify it
ClassifyPair(in, i, j, t) ==
    LET lemma_a == in.lemmas_a[i]
        lemma_b == in.lemmas_b[j]
        root_a == RootAt(in.roots_a, i)
        root_b == RootAt(in.roots_b, j)
        pairs == Append(t.aligned_pairs, <<i - 1, j - 1>>)
    IN IF lemma_a = lemma_b
       THEN [t EXCEPT !.aligned_pairs = pairs, !.lemma_matches = @ + 1,
                      !.match_weight_sum =
                          IF in.w.use
                          THEN @ + Min(get_weight(lemma_a, in.w.a), get_weight(lemma_b, in.w.b))
                          ELSE @]
       ELSE IF root_a = root_b /\ root_a # 0
       THEN [t EXCEPT !.aligned_pairs = pairs, !.root_only_matches = @ + 1]
       ELSE [t EXCEPT !.aligned_pairs = pairs, !.substitutions = @ + 1]

RECURSIVE Traceback(_, _, _, _, _)
Traceback(in, h, i, j, t) ==
    IF ~(i > 0 /\ j > 0 /\ h[i + 1][j + 1] > 0) THEN t
    ELSE LET current == h[i + 1][j + 1]
             diagonal == h[i][j]
             up == h[i][j + 1]
         IN IF current = diagonal + MatchScoreAt(in, i, j)
            THEN Traceback(in, h, i - 1, j - 1, ClassifyPair(in, i, j, t))
            ELSE IF current = up + in.p.gap_penalty
            THEN Traceback(in, h, i - 1, j, [t EXCEPT !.gaps = @ + 1])
            ELSE Traceback(in, h, i, j - 1, [t EXCEPT !.gaps = @ + 1])

count_root_matches(aligned_pairs, roots_a, roots_b) ==
    Cardinality({k \in 1..Len(aligned_pairs) :
        LET root_a == RootAt(roots_a, aligned_pairs[k][1] + 1)
            root_b == RootAt(roots_b, aligned_pairs[k][2] + 1)
        IN root_a = root_b /\ root_a # 0})

\* the mode-specific similarity of align.rs:163-174 as a rational
ModeSimilarity(in, t) ==
    LET len == Len(t.aligned_pairs) IN
    CASE in.p.mode = "Lemma" -> <<t.lemma_matches, len>>
      [] in.p.mode = "Root" ->
            <<count_root_matches(t.aligned_pairs, in.roots_a, in.roots_b), len>>
      [] in.p.mode = "Combined" -> <<2 * t.lemma_matches + t.root_only_matches, 2 * len>>

\* `similarity < params.min_similarity`; the division by len is only reached with
\* len >= 1 when min_length >= 1, and with len = 0 the f32 quotient is NaN, for
\* which every comparison is false
SimilarityBelow(sim, min_similarity) ==
    IF sim[2] = 0 THEN FALSE ELSE sim[1] * min_similarity[2] < min_similarity[1] * sim[2]

LengthGatePasses(t, p) == ~(Len(t.aligned_pairs) < p.min_length)

SimilarityGatePasses(in, t) == ~SimilarityBelow(ModeSimilarity(in, t), in.p.min_similarity)

MakeAlignment(t, pairs, best) ==
    LET first == IF Len(pairs) > 0 THEN pairs[1] ELSE <<0, 0>>
        last == IF Len(pairs) > 0 THEN pairs[Len(pairs)] ELSE <<0, 0>>
    IN [some |-> TRUE,
        start_a |-> first[1], end_a |-> last[1] + 1,
        start_b |-> first[2], end_b |-> last[2] + 1,
        aligned_pairs |-> pairs,
        lemma_matches |-> t.lemma_matches,
        substitutions |-> t.substitutions,
        root_only_matches |-> t.root_only_matches,
        gaps |-> t.gaps,
        score |-> best.max_score,
        match_weight_sum |-> t.match_weight_sum]

\* align_sequences (in.w.use = FALSE) and align_sequences_weighted (in.w.use = TRUE)
align_sequences(in) ==
    LET n == Len(in.lemmas_a)
        m == Len(in.lemmas_b)
    IN IF n = 0 \/ m = 0 THEN None
       ELSE LET h == DPMatrix(in)
                best == MaxCell(h, n, m)
            IN IF best.max_score < min_score_threshold(in.p) THEN None
               ELSE LET t == Traceback(in, h, best.max_i, best.max_j, TraceStart)
                        pairs == Reverse(t.aligned_pairs)
                    IN IF ~LengthGatePasses(t, in.p) THEN None
                       ELSE IF ~SimilarityGatePasses(in, t) THEN None
                       ELSE MakeAlignment(t, pairs, best)

(***************************************************************************)
(* compare.rs: the edge builder.                                           *)
(***************************************************************************)
\* AtomicU64::fetch_add: one indivisible read-modify-write returning the old value.
\* The counter wraps at 2^64, which no run of the model (or of the program) reaches.
\* a counter read that is not followed by the store of the sum
fetch_add_Stale(counter, n) == [old |-> counter, new |-> counter]

fetch_add(counter, n) == [old |-> counter, new |-> counter + n]

alignment_to_edge(id, wa, wb, al) ==
    LET aligned_length == Len(al.aligned_pairs) + al.gaps
        match_sub_total == al.lemma_matches + al.substitutions
        core_similarity ==
            IF match_sub_total > 0 THEN Rat(al.lemma_matches, match_sub_total) ELSE RatZero
        span_coverage ==
            IF aligned_length > 0 THEN Rat(match_sub_total, aligned_length) ELSE RatZero
        content_weight ==
            IF al.lemma_matches > 0 THEN Rat(al.match_weight_sum, 2 * al.lemma_matches)
            ELSE RatZero
        lemma_similarity ==
            IF aligned_length > 0 THEN Rat(al.lemma_matches, aligned_length) ELSE RatZero
        combined_similarity ==
            IF aligned_length > 0
            THEN Rat(2 * al.lemma_matches + al.root_only_matches, 2 * aligned_length)
            ELSE RatZero
        weighted_similarity ==
            IF aligned_length > 0 THEN Rat(al.match_weight_sum, 2 * aligned_length)
            ELSE RatZero
    IN [some |-> TRUE,
        id |-> id,
        source_book_id |-> wa.book_id,
        source_start_page |-> wa.start_page,
        source_start_offset |-> wa.start_offset + al.start_a,
        source_end_page |-> wa.end_page,
        source_end_offset |-> wa.start_offset + al.end_a,
        source_global_start |-> wa.global_start + al.start_a,
        source_global_end |-> wa.global_start + al.end_a,
        target_book_id |-> wb.book_id,
        target_start_page |-> wb.start_page,
        target_start_offset |-> wb.start_offset + al.start_b,
        target_end_page |-> wb.end_page,
        target_end_offset |-> wb.start_offset + al.end_b,
        target_global_start |-> wb.global_start + al.start_b,
        target_global_end |-> wb.global_start + al.end_b,
        aligned_length |-> aligned_length,
        lemma_matches |-> al.lemma_matches,
        substitutions |-> al.substitutions,
        root_only_matches |-> al.root_only_matches,
        gaps |-> al.gaps,
        core_similarity |-> core_similarity,
        span_coverage |-> span_coverage,
        content_weight |-> content_weight,
        lemma_similarity |-> lemma_similarity,
        combined_similarity |-> combined_similarity,
        weighted_similarity |-> weighted_similarity,
        avg_match_weight |-> content_weight]

(***************************************************************************)
(* The alignment task of compare.rs:116-138 / 557-591 on one candidate     *)
(* pair: align the two windows, then build the edge of an accepted         *)
(* alignment.                                                              *)
(***************************************************************************)
\* A token is <<lemma, root>>.  The three tokens give every classification:
\* equal lemmas (roots absent or different), equal non-zero roots only, neither.
Tokens == {<<1, 0>>, <<1, 1>>, <<2, 1>>}

TokenSeqs == UNION {[1..n -> Tokens] : n \in 0..MaxLen}

Lemmas(ts) == [k \in 1..Len(ts) |-> ts[k][1]]
Roots(ts) == [k \in 1..Len(ts) |-> ts[k][2]]

\* a window over a one-page stream, as filter.rs's create_test_window lays it out
TestWindow(book, ts) ==
    [book_id |-> book, window_idx |-> 0, global_start |-> 0, global_end |-> Len(ts),
     start_page |-> <<1, 1>>, start_offset |-> 0, end_page |-> <<1, 1>>, end_offset |-> 0,
     lemma_ids |-> Lemmas(ts), root_ids |-> Roots(ts)]

Modes == {"Lemma", "Root", "Combined"}

\* ComparisonParams::default(); an Option<f32> is None or [some |-> TRUE, value |-> r]
DefaultParams ==
    [window_size |-> 275, stride |-> 60, ngram_size |-> 5, min_shared_shingles |-> 3,
     min_length |-> 10, min_similarity |-> <<2, 5>>, match_score |-> 2,
     mismatch_penalty |-> -1, gap_penalty |-> -1, brute_force |-> FALSE,
     mode |-> "Lemma", lemma_score |-> 2, root_score |-> 1, use_weights |-> TRUE,
     min_weighted_similarity |-> None, min_core_similarity |-> None,
     min_span_coverage |-> None, min_content_weight |-> None]

AlignParams ==
    {[DefaultParams EXCEPT !.mode = md, !.min_length = ml, !.min_similarity = ms] :
        md \in Modes, ml \in {0, 2}, ms \in {<<1, 2>>, <<1, 1>>}}

\* weight vectors indexed by lemma id 0..1; lemma id 2 falls outside and weighs 1.0
WeightChoices ==
    {[use |-> FALSE, a |-> <<>>, b |-> <<>>],
     [use |-> TRUE, a |-> <<2, 1>>, b |-> <<2, 6>>]}

DriverIdle ==
    /\ d_cli = <<>>
    /\ d_start = 0

BatchIdle ==
    /\ db_pages = <<>>
    /\ b_pairs = <<>>
    /\ b_errors = <<>>
    /\ b_result = [returned |-> FALSE]
    /\ t_stream = [returned |-> FALSE]

MetricIdle ==
    /\ mf_edges = <<>>
    /\ mf_filtered = <<>>
    /\ mf_pc = "idle"

FilterIdle ==
    /\ f_windows_a = <<>>
    /\ f_windows_b = <<>>
    /\ f_candidates = <<>>
    /\ f_pc = "idle"

MergeIdle ==
    /\ m_edges = <<>>
    /\ m_merged = <<>>
    /\ m_remerged = <<>>
    /\ m_retained = <<>>
    /\ m_pc = "idle"

CompareIdle ==
    /\ c_streams = <<>>
    /\ c_windows = <<>>
    /\ c_candidates = <<>>
    /\ c_done = <<>>
    /\ c_edges = <<>>
    /\ c_result = <<>>
    /\ c_summary = <<>>
    /\ c_pc = <<>>

WindowIdle ==
    /\ w_stream = [book_id |-> 1, total_tokens |-> 0, pages |-> <<>>]
    /\ w_with_roots = FALSE
    /\ w_windows = <<>>
    /\ w_pc = "idle"

AlignIdle ==
    /\ window_a = TestWindow(1, <<>>)
    /\ window_b = TestWindow(2, <<>>)
    /\ weights = [use |-> FALSE, a |-> <<>>, b |-> <<>>]
    /\ alignment = None
    /\ edge = None
    /\ al_pc = "idle"

AlignInit ==
    /\ window_a \in {TestWindow(1, ts) : ts \in TokenSeqs}
    /\ window_b \in {TestWindow(2, ts) : ts \in TokenSeqs}
    /\ params \in AlignParams
    /\ weights \in WeightChoices
    /\ alignment = None
    /\ edge = None
    /\ al_pc = "ready"
    /\ EDGE_COUNTER = 0
    /\ MergeIdle
    /\ WindowIdle
    /\ CompareIdle
    /\ FilterIdle
    /\ MetricIdle
    /\ BatchIdle
    /\ DriverIdle

TaskInput ==
    AlignInput(window_a.lemma_ids, window_b.lemma_ids, window_a.root_ids,
               window_b.root_ids, weights, params)

\* the aligner call of the task
Align ==
    /\ al_pc = "ready"
    /\ alignment' = align_sequences(TaskInput)
    /\ al_pc' = "aligned"
    /\ UNCHANGED <<window_a, window_b, params, weights, edge, EDGE_COUNTER, NonAlignVars>>

\* `?` on None: the task yields no edge
NoEdge ==
    /\ al_pc = "aligned"
    /\ ~alignment.some
    /\ al_pc' = "done"
    /\ UNCHANGED <<window_a, window_b, params, weights, alignment, edge, EDGE_COUNTER,
                   NonAlignVars>>

\* alignment_to_edge on an accepted alignment
BuildEdge ==
    /\ al_pc = "aligned"
    /\ alignment.some
    /\ LET f == fetch_add(EDGE_COUNTER, 1)
       IN /\ edge' = alignment_to_edge(f.old, window_a, window_b, alignment)
          /\ EDGE_COUNTER' = f.new
    /\ al_pc' = "done"
    /\ UNCHANGED <<window_a, window_b, params, weights, alignment, NonAlignVars>>

AlignNext == Align \/ NoEdge \/ BuildEdge

SpecAlign == AlignInit /\ [][AlignNext]_vars

(***************************************************************************)
(* merge.rs: the overlap merge and the subsumption filter.                 *)
(***************************************************************************)
\* lexicographic order on equally long tuples of integers (Rust's tuple Ord)
LexLess(k1, k2) ==
    \E i \in 1..Len(k1) : k1[i] < k2[i] /\ \A j \in 1..(i - 1) : k1[j] = k2[j]

\* slice::sort_by_key / sort_by: a stable sort; keys[k] is the key of s[k].  Element k
\* goes behind every element with a smaller key and every earlier element with an
\* equal key.
StableSortByKey(s, keys) ==
    LET rank(k) == Cardinality({j \in 1..Len(s) :
                        \/ LexLess(keys[j], keys[k])
                        \/ (keys[j] = keys[k] /\ j < k)}) + 1
    IN [r \in 1..Len(s) |-> s[CHOOSE k \in 1..Len(s) : rank(k) = r]]

\* the sort key of merge_overlapping_edges
OverlapSortKey(e) ==
    <<e.source_book_id, e.target_book_id, e.source_global_start, e.target_global_start>>

OverlapSortKeys(edges) == [k \in 1..Len(edges) |-> OverlapSortKey(edges[k])]

\* closed-interval overlap: ranges that only touch count as overlapping
ranges_overlap_Touching(start_a, end_a, start_b, end_b) ==
    start_a <= end_b /\ start_b <= end_a

ranges_overlap(start_a, end_a, start_b, end_b) == start_a < end_b /\ start_b < end_a

\* edges_overlap satisfied by an overlap on one side alone
edges_overlap_Either(a, b) ==
    LET source_overlap == ranges_overlap(a.source_global_start, a.source_global_end,
                                         b.source_global_start, b.source_global_end)
        target_overlap == ranges_overlap(a.target_global_start, a.target_global_end,
                                         b.target_global_start, b.target_global_end)
    IN source_overlap \/ target_overlap

edges_overlap(a, b) ==
    LET source_overlap == ranges_overlap(a.source_global_start, a.source_global_end,
                                         b.source_global_start, b.source_global_end)
        target_overlap == ranges_overlap(a.target_global_start, a.target_global_end,
                                         b.target_global_start, b.target_global_end)
    IN source_overlap /\ target_overlap

calculate_overlap_size(start_a, end_a, start_b, end_b) ==
    LET overlap_start == Max(start_a, start_b)
        overlap_end == Min(end_a, end_b)
    IN IF overlap_start < overlap_end THEN overlap_end - overlap_start ELSE 0

\* u32::saturating_sub
saturating_sub(a, b) == IF a >= b THEN a - b ELSE 0

\* (overlap as f32 * rate) as u32 for a rate n / d (d > 0): truncation.  For all
\* operands below 22 the f32 product truncates to the exact floor(overlap * n / d).
OverlapShare(overlap, rate) == (overlap * rate[1]) \div rate[2]

\* (x + y) / 2.0 on rationals
RatMean(x, y) == Rat(x[1] * y[2] + y[1] * x[2], 2 * x[2] * y[2])

merge_two_edges(a, b) ==
    LET source_global_start == Min(a.source_global_start, b.source_global_start)
        source_global_end == Max(a.source_global_end, b.source_global_end)
        target_global_start == Min(a.target_global_start, b.target_global_start)
        target_global_end == Max(a.target_global_end, b.target_global_end)
        source_start == IF a.source_global_start <= b.source_global_start THEN a ELSE b
        source_end == IF a.source_global_end >= b.source_global_end THEN a ELSE b
        target_start == IF a.target_global_start <= b.target_global_start THEN a ELSE b
        target_end == IF a.target_global_end >= b.target_global_end THEN a ELSE b
        aligned_length == source_global_end - source_global_start
        overlap_source == calculate_overlap_size(a.source_global_start, a.source_global_end,
                                                 b.source_global_start, b.source_global_end)
        overlap_matches == OverlapShare(overlap_source, a.lemma_similarity)
        lemma_matches == saturating_sub(a.lemma_matches + b.lemma_matches, overlap_matches)
        overlap_subs ==
            IF a.aligned_length > 0
            THEN OverlapShare(overlap_source, <<a.substitutions, a.aligned_length>>)
            ELSE 0
        substitutions == saturating_sub(a.substitutions + b.substitutions, overlap_subs)
        overlap_root_only ==
            IF a.aligned_length > 0
            THEN OverlapShare(overlap_source, <<a.root_only_matches, a.aligned_length>>)
            ELSE 0
        root_only_matches ==
            saturating_sub(a.root_only_matches + b.root_only_matches, overlap_root_only)
        gaps == (a.gaps + b.gaps) \div 2
        match_sub_total == lemma_matches + substitutions
        content_weight == RatMean(a.content_weight, b.content_weight)
    IN [some |-> TRUE,
        id |-> a.id,
        source_book_id |-> a.source_book_id,
        source_start_page |-> source_start.source_start_page,
        source_start_offset |-> source_start.source_start_offset,
        source_end_page |-> source_end.source_end_page,
        source_end_offset |-> source_end.source_end_offset,
        source_global_start |-> source_global_start,
        source_global_end |-> source_global_end,
        target_book_id |-> a.target_book_id,
        target_start_page |-> target_start.target_start_page,
        target_start_offset |-> target_start.target_start_offset,
        target_end_page |-> target_end.target_end_page,
        target_end_offset |-> target_end.target_end_offset,
        target_global_start |-> target_global_start,
        target_global_end |-> target_global_end,
        aligned_length |-> aligned_length,
        lemma_matches |-> lemma_matches,
        substitutions |-> substitutions,
        root_only_matches |-> root_only_matches,
        gaps |-> gaps,
        core_similarity |->
            IF match_sub_total > 0 THEN Rat(lemma_matches, match_sub_total) ELSE RatZero,
        span_coverage |->
            IF aligned_length > 0 THEN Rat(match_sub_total, aligned_length) ELSE RatZero,
        content_weight |-> content_weight,
        lemma_similarity |->
            IF aligned_length > 0 THEN Rat(lemma_matches, aligned_length) ELSE RatZero,
        combined_similarity |->
            IF aligned_length > 0
            THEN Rat(2 * lemma_matches + root_only_matches, 2 * aligned_length)
            ELSE RatZero,
        weighted_similarity |-> RatMean(a.weighted_similarity, b.weighted_similarity),
        avg_match_weight |-> content_weight]

\* the decision of the sweep for the next edge against the accumulator
should_merge(merged, e) ==
    IF Len(merged) > 0
    THEN LET last == merged[Len(merged)]
         IN /\ last.source_book_id = e.source_book_id
            /\ last.target_book_id = e.target_book_id
            /\ edges_overlap(last, e)
    ELSE FALSE

\* the sweep of merge_overlapping_edges over the sorted edges from index k on
RECURSIVE MergeSweep(_, _, _)
MergeSweep(edges, k, merged) ==
    IF k > Len(edges) THEN merged
    ELSE IF should_merge(merged, edges[k])
    THEN MergeSweep(edges, k + 1,
             [merged EXCEPT ![Len(merged)] = merge_two_edges(@, edges[k])])
    ELSE MergeSweep(edges, k + 1, Append(merged, edges[k]))

merge_overlapping_edges(edges) ==
    IF Len(edges) <= 1 THEN edges
    ELSE MergeSweep(StableSortByKey(edges, OverlapSortKeys(edges)), 1, <<>>)

\* the sort keys of remove_subsumed_edges: aligned_length descending, then position
SubsumeSortKey(e) == <<0 - e.aligned_length>>
PositionSortKey(e) == <<e.source_book_id, e.target_book_id, e.source_global_start>>

\* sort_by(|a, b| b.aligned_length.cmp(&a.aligned_length))
sort_by_aligned_length(edges) ==
    StableSortByKey(edges, [k \in 1..Len(edges) |-> SubsumeSortKey(edges[k])])

\* sort_by_key on the position key
sort_by_position(edges) ==
    StableSortByKey(edges, [k \in 1..Len(edges) |-> PositionSortKey(edges[k])])

is_subsumed(retained, e) ==
    \E k \in 1..Len(retained) :
        LET existing == retained[k]
        IN /\ existing.source_book_id = e.source_book_id
           /\ existing.target_book_id = e.target_book_id
           /\ existing.source_global_start <= e.source_global_start
           /\ existing.source_global_end >= e.source_global_end
           /\ existing.target_global_start <= e.target_global_start
           /\ existing.target_global_end >= e.target_global_end

RECURSIVE SubsumeSweep(_, _, _)
SubsumeSweep(edges, k, retained) ==
    IF k > Len(edges) THEN retained
    ELSE IF is_subsumed(retained, edges[k])
    THEN SubsumeSweep(edges, k + 1, retained)
    ELSE SubsumeSweep(edges, k + 1, Append(retained, edges[k]))

remove_subsumed_edges(edges) ==
    IF Len(edges) <= 1 THEN edges
    ELSE sort_by_position(SubsumeSweep(sort_by_aligned_length(edges), 1, <<>>))

(***************************************************************************)
(* The merger on an edge list.  The edges are built by the edge builder    *)
(* from alignments of windows standing at global position 0, so that their *)
(* fields are consistent the way the pipeline makes them; the pages of     *)
(* edge `id` tell the edges apart.                                         *)
(***************************************************************************)
TargetBooks == {2, 3}

TagWindow(book, id) ==
    [book_id |-> book, window_idx |-> id, global_start |-> 0, global_end |-> MaxPos,
     start_page |-> <<book, 2 * id + 1>>, start_offset |-> 0,
     end_page |-> <<book, 2 * id + 2>>, end_offset |-> 0,
     lemma_ids |-> <<>>, root_ids |-> <<>>]

\* an unweighted alignment over [ss, se) x [ts, te) with as many diagonal steps as
\* the shorter side has positions, the rest gaps, `subs` of the pairs substitutions
ShapeAlignment(sh) ==
    LET pairs == Min(sh.se - sh.ss, sh.te - sh.ts)
        gaps == Abs((sh.se - sh.ss) - (sh.te - sh.ts))
        subs == Min(sh.subs, pairs - 1)
    IN [some |-> TRUE, start_a |-> sh.ss, end_a |-> sh.se, start_b |-> sh.ts,
        end_b |-> sh.te, aligned_pairs |-> [k \in 1..pairs |-> <<0, 0>>],
        lemma_matches |-> pairs - subs, substitutions |-> subs, root_only_matches |-> 0,
        gaps |-> gaps, score |-> 0, match_weight_sum |-> 0]

EdgeShapes ==
    {[tb |-> tb, ss |-> ss, se |-> se, ts |-> ts, te |-> te, subs |-> 0] :
        tb \in TargetBooks, ss \in 0..MaxPos, se \in 0..MaxPos,
        ts \in 0..MaxPos, te \in 0..MaxPos}

WellFormedShape(sh) == sh.ss < sh.se /\ sh.ts < sh.te

InputEdge(id, sh) ==
    alignment_to_edge(id, TagWindow(1, id), TagWindow(sh.tb, id), ShapeAlignment(sh))

WellFormedShapes == {sh \in EdgeShapes : WellFormedShape(sh)}

EdgeList(shs) == [k \in 1..Len(shs) |-> InputEdge(k - 1, shs[k])]

MergeStart ==
    /\ m_merged = <<>>
    /\ m_remerged = <<>>
    /\ m_retained = <<>>
    /\ m_pc = "input"
    /\ params = DefaultParams
    /\ EDGE_COUNTER = Len(m_edges)
    /\ AlignIdle
    /\ WindowIdle
    /\ CompareIdle
    /\ FilterIdle
    /\ MetricIdle
    /\ BatchIdle
    /\ DriverIdle

\* every list of up to MaxEdges edges over the target books
MergeInit ==
    /\ \E n \in 0..MaxEdges : \E shs \in [1..n -> WellFormedShapes] :
           m_edges = EdgeList(shs)
    /\ MergeStart

\* the span scenarios: up to MaxChain edges of one book pair, at most one of them
\* (edge j) moved to another target book
ChainInit ==
    /\ \E n \in 0..MaxChain :
       \E shs \in [1..n -> {sh \in WellFormedShapes : sh.tb = 2}] :
       \E j \in 0..n :
           m_edges = EdgeList([k \in 1..n |->
                                  IF k = j THEN [shs[k] EXCEPT !.tb = 3] ELSE shs[k]])
    /\ MergeStart

MergeOverlapping ==
    /\ m_pc = "input"
    /\ m_merged' = merge_overlapping_edges(m_edges)
    /\ m_pc' = "merged"
    /\ UNCHANGED <<m_edges, m_remerged, m_retained, params, EDGE_COUNTER, NonMergeVars>>

MergeAgain ==
    /\ m_pc = "merged"
    /\ m_remerged' = merge_overlapping_edges(m_merged)
    /\ m_pc' = "remerged"
    /\ UNCHANGED <<m_edges, m_merged, m_retained, params, EDGE_COUNTER, NonMergeVars>>

RemoveSubsumed ==
    /\ m_pc = "input"
    /\ m_retained' = remove_subsumed_edges(m_edges)
    /\ m_pc' = "retained"
    /\ UNCHANGED <<m_edges, m_merged, m_remerged, params, EDGE_COUNTER, NonMergeVars>>

MergeNext == MergeOverlapping \/ MergeAgain \/ RemoveSubsumed

SpecMerge == MergeInit /\ [][MergeNext]_vars

ChainNext == MergeOverlapping

SpecChain == ChainInit /\ [][ChainNext]_vars

(***************************************************************************)
(* window.rs: the windower.  A stream is [book_id, total_tokens, pages],   *)
(* a page [part_index, page_id, lemma_ids, root_ids]; positions are        *)
(* 0-based as in the source, sequences 1-based.                            *)
(***************************************************************************)
RECURSIVE FlatMap(_, _, _)
FlatMap(pages, k, field) ==
    IF k > Len(pages) THEN <<>>
    ELSE (IF field = "lemma_ids" THEN pages[k].lemma_ids ELSE pages[k].root_ids)
             \o FlatMap(pages, k + 1, field)

flat_lemmas(stream) == FlatMap(stream.pages, 1, "lemma_ids")

flat_root_ids(stream) == FlatMap(stream.pages, 1, "root_ids")

RECURSIVE PageOffsetsFrom(_, _, _)
PageOffsetsFrom(pages, k, current_offset) ==
    IF k > Len(pages) THEN <<>>
    ELSE LET end_offset == current_offset + Len(pages[k].lemma_ids)
         IN <<[part_index |-> pages[k].part_index, page_id |-> pages[k].page_id,
               start_offset |-> current_offset, end_offset |-> end_offset]>>
                \o PageOffsetsFrom(pages, k + 1, end_offset)

\* build_page_offsets with the first page taken to start at position 1
build_page_offsets_FromOne(stream) == PageOffsetsFrom(stream.pages, 1, 1)

build_page_offsets(stream) == PageOffsetsFrom(stream.pages, 1, 0)

\* the same search with a page taken to reach up to and including its end offset
binary_search_by_Closed(page_offsets, pos) ==
    LET Holding == {k \in 1..Len(page_offsets) :
                       /\ ~(pos < page_offsets[k].start_offset)
                       /\ ~(pos > page_offsets[k].end_offset)}
    IN IF Holding # {}
       THEN [ok |-> TRUE, idx |-> (CHOOSE k \in Holding : \A j \in Holding : k <= j) - 1]
       ELSE [ok |-> FALSE,
             idx |-> Cardinality({k \in 1..Len(page_offsets) :
                                     ~(pos < page_offsets[k].start_offset)})]

\* slice::binary_search_by with the comparator of find_page_and_offset: Ok(index of
\* the page holding pos), or Err(number of pages that end at or before pos); 0-based
binary_search_by(page_offsets, pos) ==
    LET Holding == {k \in 1..Len(page_offsets) :
                       /\ ~(pos < page_offsets[k].start_offset)
                       /\ ~(pos >= page_offsets[k].end_offset)}
    IN IF Holding # {}
       THEN [ok |-> TRUE, idx |-> (CHOOSE k \in Holding : TRUE) - 1]
       ELSE [ok |-> FALSE,
             idx |-> Cardinality({k \in 1..Len(page_offsets) :
                                     ~(pos < page_offsets[k].start_offset)})]

\* ((part_index, page_id), offset within the page) of global position pos
find_page_and_offset(page_offsets, pos) ==
    LET found == binary_search_by(page_offsets, pos)
        page_idx == IF found.ok THEN found.idx
                    ELSE Min(saturating_sub(found.idx, 1), Len(page_offsets) - 1)
        offset == page_offsets[page_idx + 1]
    IN <<<<offset.part_index, offset.page_id>>, pos - offset.start_offset>>

\* flat[start..end]
Slice(flat, start, end) == SubSeq(flat, start + 1, end)

\* vec![0; n]
Zeros(n) == [k \in 1..n |-> 0]

\* the Window pushed for [start, end) whose last token stands at position last
\* MakeWindow with global_start one past the first token of the slice
MakeWindow_Shifted(stream, with_roots, window_idx, start, end, last) ==
    LET page_offsets == build_page_offsets(stream)
        first_at == find_page_and_offset(page_offsets, start)
        last_at == find_page_and_offset(page_offsets, last)
    IN [book_id |-> stream.book_id, window_idx |-> window_idx,
        global_start |-> start + 1, global_end |-> end,
        start_page |-> first_at[1], start_offset |-> first_at[2],
        end_page |-> last_at[1], end_offset |-> last_at[2],
        lemma_ids |-> Slice(flat_lemmas(stream), start, end),
        root_ids |-> IF with_roots THEN Slice(flat_root_ids(stream), start, end)
                     ELSE Zeros(end - start)]

MakeWindow(stream, with_roots, window_idx, start, end, last) ==
    LET page_offsets == build_page_offsets(stream)
        first_at == find_page_and_offset(page_offsets, start)
        last_at == find_page_and_offset(page_offsets, last)
    IN [book_id |-> stream.book_id, window_idx |-> window_idx,
        global_start |-> start, global_end |-> end,
        start_page |-> first_at[1], start_offset |-> first_at[2],
        end_page |-> last_at[1], end_offset |-> last_at[2],
        lemma_ids |-> Slice(flat_lemmas(stream), start, end),
        root_ids |-> IF with_roots THEN Slice(flat_root_ids(stream), start, end)
                     ELSE Zeros(end - start)]

\* the condition of the while loop
LoopContinues_Strict(start, len, p) == start + p.window_size < len

LoopContinues(start, len, p) == start + p.window_size <= len

\* the condition of the final partial window
HasPartialWindow_Longer(start, len, p) == start < len /\ len - start > p.min_length

HasPartialWindow(start, len, p) == start < len /\ len - start >= p.min_length

\* the while loop from `start` on: the windows pushed, then the final window_idx and start
RECURSIVE WindowLoop(_, _, _, _, _, _)
WindowLoop(stream, with_roots, p, windows, window_idx, start) ==
    IF LoopContinues(start, Len(flat_lemmas(stream)), p)
    THEN LET end == start + p.window_size
         IN WindowLoop(stream, with_roots, p,
                Append(windows, MakeWindow(stream, with_roots, window_idx, start, end, end - 1)),
                window_idx + 1, start + p.stride)
    ELSE [windows |-> windows, window_idx |-> window_idx, start |-> start]

\* generate_windows (with_roots = FALSE) and generate_windows_with_roots (TRUE)
generate_windows(stream, p, with_roots) ==
    LET len == Len(flat_lemmas(stream))
    IN IF len = 0 THEN <<>>
       ELSE IF len < p.window_size
       THEN <<[MakeWindow(stream, with_roots, 0, 0, len, saturating_sub(len, 1))
                  EXCEPT !.root_ids = IF with_roots THEN flat_root_ids(stream)
                                      ELSE Zeros(len)]>>
       ELSE LET loop == WindowLoop(stream, with_roots, p, <<>>, 0, 0)
            IN IF HasPartialWindow(loop.start, len, p)
               THEN Append(loop.windows,
                        MakeWindow(stream, with_roots, loop.window_idx, loop.start, len,
                                   len - 1))
               ELSE loop.windows

(***************************************************************************)
(* The windower on a stream.  The token at global position p carries       *)
(* lemma id p + 1 and root id p + 1, so a slice names its positions; a     *)
(* page holds as many root ids as lemma ids.  window_size and stride are   *)
(* at least 1, the domain the core is specified on.                        *)
(***************************************************************************)
RECURSIVE PagesOf(_, _, _)
PagesOf(page_lens, k, first) ==
    IF k > Len(page_lens) THEN <<>>
    ELSE <<[part_index |-> 1, page_id |-> k,
            lemma_ids |-> [i \in 1..page_lens[k] |-> first + i],
            root_ids |-> [i \in 1..page_lens[k] |-> first + i]]>>
             \o PagesOf(page_lens, k + 1, first + page_lens[k])

RECURSIVE SumSeq(_, _)
SumSeq(xs, k) == IF k > Len(xs) THEN 0 ELSE xs[k] + SumSeq(xs, k + 1)

StreamOf(book, page_lens) ==
    [book_id |-> book, total_tokens |-> SumSeq(page_lens, 1),
     pages |-> PagesOf(page_lens, 1, 0)]

WindowParams ==
    {[DefaultParams EXCEPT !.window_size = ws, !.stride = st, !.min_length = ml] :
        ws \in 1..MaxWin, st \in 1..MaxWin, ml \in 0..MaxMinLen}

WindowInit ==
    /\ \E n \in 0..MaxPages : \E page_lens \in [1..n -> 0..MaxPageLen] :
           w_stream = StreamOf(1, page_lens)
    /\ w_with_roots \in BOOLEAN
    /\ params \in WindowParams
    /\ w_windows = <<>>
    /\ w_pc = "ready"
    /\ EDGE_COUNTER = 0
    /\ AlignIdle
    /\ MergeIdle
    /\ CompareIdle
    /\ FilterIdle
    /\ MetricIdle
    /\ BatchIdle
    /\ DriverIdle

GenerateWindows ==
    /\ w_pc = "ready"
    /\ w_windows' = generate_windows(w_stream, params, w_with_roots)
    /\ w_pc' = "done"
    /\ UNCHANGED <<w_stream, w_with_roots, params, EDGE_COUNTER, NonWindowVars>>

WindowNext == GenerateWindows

SpecWindow == WindowInit /\ [][WindowNext]_vars

(***************************************************************************)
(* filter.rs: n-gram shingles and the candidate pairs.  A HashSet or       *)
(* HashMap is a set or a function; the order in which one is iterated is   *)
(* not fixed, so find_candidate_pairs is the set of the vectors it can     *)
(* return.  Window indices are 0-based as in the code.                     *)
(***************************************************************************)
\* generate_shingles: the set of the n-token runs of the sequence
generate_shingles(lemma_ids, n) ==
    IF Len(lemma_ids) < n \/ n = 0
    THEN {}
    ELSE {SubSeq(lemma_ids, i, i + n - 1) : i \in 1..(Len(lemma_ids) - n + 1)}

\* build_shingle_index: shingle -> the indices of the windows holding it, in push order
build_shingle_index(windows, ngram_size) ==
    LET shingles(idx) == generate_shingles(windows[idx + 1].lemma_ids, ngram_size)
        all == UNION {shingles(idx) : idx \in 0..(Len(windows) - 1)}
    IN [shingle \in all |->
           SelectSeq([k \in 1..Len(windows) |-> k - 1], LAMBDA idx : shingle \in shingles(idx))]

\* shared_counts after the probe loop of one window_a: an entry for every idx_b met in
\* a posting list, counting how often it was met
shared_counts(shingles_a, shingle_index) ==
    LET hits == UNION {{<<shingle, k>> : k \in 1..Len(shingle_index[shingle])} :
                          shingle \in shingles_a \cap DOMAIN shingle_index}
        met == {shingle_index[h[1]][h[2]] : h \in hits}
    IN [idx_b \in met |->
           Cardinality({h \in hits : shingle_index[h[1]][h[2]] = idx_b})]

\* the orders in which the entries of a set can be visited
Orderings(S) ==
    {s \in [1..Cardinality(S) -> S] : \A i, j \in 1..Cardinality(S) : i # j => s[i] # s[j]}

\* the pairs pushed for window idx_a: the kept entries of shared_counts, in any order
KeptPairs(idx_a, windows_a, shingle_index, p) ==
    LET shingles_a == generate_shingles(windows_a[idx_a + 1].lemma_ids, p.ngram_size)
        counts == shared_counts(shingles_a, shingle_index)
        kept == {idx_b \in DOMAIN counts : counts[idx_b] >= p.min_shared_shingles}
    IN {[k \in 1..Len(o) |-> <<idx_a, o[k]>>] : o \in Orderings(kept)}

RECURSIVE FilteredFrom(_, _, _, _)
FilteredFrom(idx_a, windows_a, shingle_index, p) ==
    IF idx_a >= Len(windows_a)
    THEN {<<>>}
    ELSE {head \o tail : head \in KeptPairs(idx_a, windows_a, shingle_index, p),
                         tail \in FilteredFrom(idx_a + 1, windows_a, shingle_index, p)}

\* generate_all_pairs with the last window of the second book left out
generate_all_pairs_Short(len_a, len_b) ==
    [k \in 1..(len_a * (len_b - 1)) |-> <<(k - 1) \div (len_b - 1), (k - 1) % (len_b - 1)>>]

\* generate_all_pairs: (i, j) for i in 0..len_a, j in 0..len_b, row by row
generate_all_pairs(len_a, len_b) ==
    [k \in 1..(len_a * len_b) |-> <<(k - 1) \div len_b, (k - 1) % len_b>>]

\* find_candidate_pairs: the vectors the call can return
find_candidate_pairs(windows_a, windows_b, p) ==
    IF p.brute_force
    THEN {generate_all_pairs(Len(windows_a), Len(windows_b))}
    ELSE FilteredFrom(0, windows_a, build_shingle_index(windows_b, p.ngram_size), p)

\* a stream of one page without roots
LemmaStream(book, lemmas) ==
    [book_id |-> book, total_tokens |-> Len(lemmas),
     pages |-> <<[part_index |-> 1, page_id |-> 1, lemma_ids |-> lemmas,
                  root_ids |-> Zeros(Len(lemmas))]>>]

\* windows of three tokens, two apart; every ngram_size, min_shared_shingles and
\* brute_force in range
FilterParams ==
    {[DefaultParams EXCEPT !.window_size = 3, !.stride = 2, !.min_length = 2,
                           !.min_similarity = <<1, 2>>, !.ngram_size = n,
                           !.min_shared_shingles = m, !.brute_force = bf] :
        n \in 0..MaxNgram, m \in 0..MaxShared, bf \in BOOLEAN}

\* the empty book and the books of MaxFilterBook tokens of lemmas 1 and 2
FilterBooks == {<<>>} \cup [1..MaxFilterBook -> {1, 2}]

\* the windows of two books of lemmas 1 and 2, as the windower cuts them
FilterInit ==
    /\ params \in FilterParams
    /\ \E la \in FilterBooks : f_windows_a = generate_windows(LemmaStream(1, la), params, FALSE)
    /\ \E lb \in FilterBooks : f_windows_b = generate_windows(LemmaStream(2, lb), params, FALSE)
    /\ f_candidates = <<>>
    /\ f_pc = "called"
    /\ EDGE_COUNTER = 0
    /\ AlignIdle
    /\ MergeIdle
    /\ WindowIdle
    /\ CompareIdle
    /\ MetricIdle
    /\ BatchIdle
    /\ DriverIdle

FindCandidatePairs ==
    /\ f_pc = "called"
    /\ f_candidates' \in find_candidate_pairs(f_windows_a, f_windows_b, params)
    /\ f_pc' = "returned"
    /\ UNCHANGED <<f_windows_a, f_windows_b, params, EDGE_COUNTER, NonFilterVars>>

FilterNext == FindCandidatePairs

SpecFilter == FilterInit /\ [][FilterNext]_vars

(***************************************************************************)
(* compare.rs: comparisons of one process.  Each comparison windows its    *)
(* two streams, takes all window pairs as candidates (brute force), runs   *)
(* one alignment task per candidate on the worker pool, then merges and    *)
(* filters.  A task touches shared state only in the fetch_add of the edge *)
(* builder, so a task is one step and the steps of all tasks of all        *)
(* comparisons interleave freely.                                          *)
(***************************************************************************)
\* a threshold that drops the edges sitting exactly on it as well
PassesMin_Strict(value, min) == ~(min.some /\ ~RatLt(min.value, value))

\* one Option<f32> threshold of filter_edges_by_params
PassesMin(value, min) == ~(min.some /\ RatLt(value, min.value))

filter_edges_by_params(edges, p) ==
    SelectSeq(edges, LAMBDA e :
        /\ PassesMin(e.weighted_similarity, p.min_weighted_similarity)
        /\ PassesMin(e.core_similarity, p.min_core_similarity)
        /\ PassesMin(e.span_coverage, p.min_span_coverage)
        /\ PassesMin(e.content_weight, p.min_content_weight))

\* merge_ranges from range k on: `current` grows while the next range starts at or
\* before its end
RECURSIVE MergeRangesFrom(_, _, _, _)
MergeRangesFrom(ranges, k, current, merged) ==
    IF k > Len(ranges) THEN Append(merged, current)
    ELSE IF ranges[k][1] <= current[2]
    THEN MergeRangesFrom(ranges, k + 1, <<current[1], Max(current[2], ranges[k][2])>>, merged)
    ELSE MergeRangesFrom(ranges, k + 1, ranges[k], Append(merged, current))

merge_ranges(ranges) ==
    IF Len(ranges) = 0 THEN <<>> ELSE MergeRangesFrom(ranges, 2, ranges[1], <<>>)

\* the tokens of book book_id that the edges cover: the ranges of the edges on the
\* book's side, sorted by start, merged and summed
covered_tokens(edges, book_id) ==
    LET on_book == SelectSeq(edges, LAMBDA e :
                       e.source_book_id = book_id \/ e.target_book_id = book_id)
        covered_ranges ==
            [k \in 1..Len(on_book) |->
                IF on_book[k].source_book_id = book_id
                THEN <<on_book[k].source_global_start, on_book[k].source_global_end>>
                ELSE <<on_book[k].target_global_start, on_book[k].target_global_end>>]
        sorted == StableSortByKey(covered_ranges,
                                  [k \in 1..Len(covered_ranges) |-> <<covered_ranges[k][1]>>])
        merged_ranges == merge_ranges(sorted)
    IN SumSeq([k \in 1..Len(merged_ranges) |-> merged_ranges[k][2] - merged_ranges[k][1]], 1)

calculate_coverage(edges, book_id, total_tokens) ==
    IF total_tokens = 0 THEN RatZero ELSE Rat(covered_tokens(edges, book_id), total_tokens)

RatAdd(x, y) == Rat(x[1] * y[2] + y[1] * x[2], x[2] * y[2])

RECURSIVE RatSum(_, _)
RatSum(xs, k) == IF k > Len(xs) THEN RatZero ELSE RatAdd(xs[k], RatSum(xs, k + 1))

\* the mean without the test for no edge: 0.0 / 0.0 over no edge
AverageOf_Unguarded(edges, metric) ==
    LET total == RatSum([k \in 1..Len(edges) |-> edges[k][metric]], 1)
    IN IF Len(edges) = 0 THEN <<0, 0>> ELSE Rat(total[1], total[2] * Len(edges))

\* the mean of a metric over the edges, 0.0 over no edge
AverageOf(edges, metric) ==
    IF Len(edges) = 0 THEN RatZero
    ELSE LET total == RatSum([k \in 1..Len(edges) |-> edges[k][metric]], 1)
         IN Rat(total[1], total[2] * Len(edges))

\* the ComparisonSummary of a result
summary_of(filtered_edges, stream_a, stream_b) ==
    [edge_count |-> Len(filtered_edges),
     total_aligned_tokens |->
         SumSeq([k \in 1..Len(filtered_edges) |-> filtered_edges[k].aligned_length], 1),
     book_a_coverage |->
         calculate_coverage(filtered_edges, stream_a.book_id, stream_a.total_tokens),
     book_b_coverage |->
         calculate_coverage(filtered_edges, stream_b.book_id, stream_b.total_tokens),
     avg_similarity |-> AverageOf(filtered_edges, "lemma_similarity"),
     avg_weighted_similarity |-> AverageOf(filtered_edges, "weighted_similarity")]

Runs == {1, 2}

CompareParams ==
    {[DefaultParams EXCEPT !.window_size = 3, !.stride = 2, !.min_length = 2,
                           !.min_similarity = ms, !.brute_force = TRUE,
                           !.min_span_coverage = mc] :
        ms \in {<<1, 2>>, RatOne}, mc \in {None, [some |-> TRUE, value |-> RatOne]}}

\* the first book is three tokens of lemma 1, the second any MaxBookLen tokens of
\* lemmas 1 and 2; both comparisons are of this pair of books
CompareInit ==
    /\ \E bs \in [1..MaxBookLen -> {1, 2}] :
           c_streams = [r \in Runs |-> [a |-> LemmaStream(1, <<1, 1, 1>>),
                                        b |-> LemmaStream(2, bs)]]
    /\ params \in CompareParams
    /\ c_windows = [r \in Runs |-> [a |-> <<>>, b |-> <<>>]]
    /\ c_candidates = [r \in Runs |-> <<>>]
    /\ c_done = [r \in Runs |-> {}]
    /\ c_edges = [r \in Runs |-> <<>>]
    /\ c_result = [r \in Runs |-> <<>>]
    /\ c_summary = [r \in Runs |-> <<>>]
    /\ c_pc = [r \in Runs |-> "called"]
    /\ EDGE_COUNTER = 0
    /\ AlignIdle
    /\ MergeIdle
    /\ WindowIdle
    /\ FilterIdle
    /\ MetricIdle
    /\ BatchIdle
    /\ DriverIdle

\* the sequential head of a comparison: windows of both books, candidate pairs
FindCandidates(r) ==
    /\ r \in DOMAIN c_pc
    /\ c_pc[r] = "called"
    /\ LET windows_a == generate_windows(c_streams[r].a, params, FALSE)
           windows_b == generate_windows(c_streams[r].b, params, FALSE)
       IN \E candidates \in find_candidate_pairs(windows_a, windows_b, params) :
              /\ c_windows' = [c_windows EXCEPT ![r] = [a |-> windows_a, b |-> windows_b]]
              /\ c_candidates' = [c_candidates EXCEPT ![r] = candidates]
              /\ c_edges' = [c_edges EXCEPT ![r] = [k \in 1..Len(candidates) |-> None]]
    /\ c_pc' = [c_pc EXCEPT ![r] = "aligning"]
    /\ UNCHANGED <<c_streams, c_done, c_result, c_summary, params, EDGE_COUNTER,
                   NonCompareVars>>

\* the filter_map closure on candidate k of comparison r
AlignTask(r, k) ==
    /\ r \in DOMAIN c_pc
    /\ c_pc[r] = "aligning"
    /\ k \in 1..Len(c_candidates[r])
    /\ k \notin c_done[r]
    /\ LET wa == c_windows[r].a[c_candidates[r][k][1] + 1]
           wb == c_windows[r].b[c_candidates[r][k][2] + 1]
           al == align_sequences(AlignInput(wa.lemma_ids, wb.lemma_ids, wa.root_ids,
                                            wb.root_ids,
                                            [use |-> FALSE, a |-> <<>>, b |-> <<>>], params))
           f == fetch_add(EDGE_COUNTER, 1)
       IN IF al.some
          THEN /\ c_edges' = [c_edges EXCEPT ![r][k] = alignment_to_edge(f.old, wa, wb, al)]
               /\ EDGE_COUNTER' = f.new
          ELSE /\ c_edges' = [c_edges EXCEPT ![r][k] = None]
               /\ EDGE_COUNTER' = EDGE_COUNTER
    /\ c_done' = [c_done EXCEPT ![r] = @ \cup {k}]
    /\ UNCHANGED <<c_streams, c_windows, c_candidates, c_result, c_summary, c_pc, params,
                   NonCompareVars>>

\* collect() of the edges in candidate order, the merge, the filter and the return
FinishComparison(r) ==
    /\ r \in DOMAIN c_pc
    /\ c_pc[r] = "aligning"
    /\ c_done[r] = 1..Len(c_candidates[r])
    /\ LET edges == SelectSeq(c_edges[r], LAMBDA e : e.some)
           merged_edges == merge_overlapping_edges(edges)
           filtered_edges == filter_edges_by_params(merged_edges, params)
       IN /\ c_result' = [c_result EXCEPT ![r] = filtered_edges]
          /\ c_summary' = [c_summary EXCEPT ![r] =
                               summary_of(filtered_edges, c_streams[r].a, c_streams[r].b)]
    /\ c_pc' = [c_pc EXCEPT ![r] = "returned"]
    /\ UNCHANGED <<c_streams, c_windows, c_candidates, c_done, c_edges, params,
                   EDGE_COUNTER, NonCompareVars>>

CompareNext ==
    \E r \in Runs :
        \/ FindCandidates(r)
        \/ \E k \in 1..MaxBookLen : AlignTask(r, k)
        \/ FinishComparison(r)

SpecCompare == CompareInit /\ [][CompareNext]_vars

\* one comparison of a book with a copy of itself: every book of MaxSameLen tokens of
\* three lemmas, filtered or by brute force; two windows a side share at least one
\* 2-gram whenever they are equal
SameParams ==
    {[DefaultParams EXCEPT !.window_size = 3, !.stride = 2, !.min_length = 2,
                           !.ngram_size = 2, !.min_shared_shingles = 1,
                           !.min_similarity = <<1, 2>>, !.brute_force = bf] :
        bf \in BOOLEAN}

SameInit ==
    /\ \E ls \in [1..MaxSameLen -> {1, 2, 3}] :
           c_streams = [r \in {1} |-> [a |-> LemmaStream(1, ls), b |-> LemmaStream(2, ls)]]
    /\ params \in SameParams
    /\ c_windows = [r \in {1} |-> [a |-> <<>>, b |-> <<>>]]
    /\ c_candidates = [r \in {1} |-> <<>>]
    /\ c_done = [r \in {1} |-> {}]
    /\ c_edges = [r \in {1} |-> <<>>]
    /\ c_result = [r \in {1} |-> <<>>]
    /\ c_summary = [r \in {1} |-> <<>>]
    /\ c_pc = [r \in {1} |-> "called"]
    /\ EDGE_COUNTER = 0
    /\ AlignIdle
    /\ MergeIdle
    /\ WindowIdle
    /\ FilterIdle
    /\ MetricIdle
    /\ BatchIdle
    /\ DriverIdle

SpecSame == SameInit /\ [][CompareNext]_vars

\* one comparison of two books cut into pages: the book without pages, and every book
\* of up to MaxPagedLen tokens on two pages, either of which may be empty.  Token k
\* of either book has lemma k, so the books agree on their common prefix.
PagedLayouts ==
    {<<>>} \cup UNION {{<<s, n - s>> : s \in 0..n} : n \in 0..MaxPagedLen}

PagedParams ==
    {[DefaultParams EXCEPT !.window_size = 3, !.stride = 2, !.min_length = 2,
                           !.ngram_size = 2, !.min_shared_shingles = 1,
                           !.min_similarity = <<1, 2>>, !.brute_force = bf] :
        bf \in BOOLEAN}

PagedInit ==
    /\ \E la \in PagedLayouts : \E lb \in PagedLayouts :
           c_streams = [r \in {1} |-> [a |-> StreamOf(1, la), b |-> StreamOf(2, lb)]]
    /\ params \in PagedParams
    /\ c_windows = [r \in {1} |-> [a |-> <<>>, b |-> <<>>]]
    /\ c_candidates = [r \in {1} |-> <<>>]
    /\ c_done = [r \in {1} |-> {}]
    /\ c_edges = [r \in {1} |-> <<>>]
    /\ c_result = [r \in {1} |-> <<>>]
    /\ c_summary = [r \in {1} |-> <<>>]
    /\ c_pc = [r \in {1} |-> "called"]
    /\ EDGE_COUNTER = 0
    /\ AlignIdle
    /\ MergeIdle
    /\ WindowIdle
    /\ FilterIdle
    /\ MetricIdle
    /\ BatchIdle
    /\ DriverIdle

SpecPaged == PagedInit /\ [][CompareNext]_vars

(***************************************************************************)
(* Properties of the aligner and the edge builder (SpecAlign).            *)
(***************************************************************************)
\* the similarity the acceptance gate is specified on, recomputed from the returned
\* alignment and the windows; a zero denominator yields 0
ReturnedSimilarity ==
    LET len == Len(alignment.aligned_pairs)
        root_matches ==
            Cardinality({k \in 1..len :
                LET ra == window_a.root_ids[alignment.aligned_pairs[k][1] + 1]
                    rb == window_b.root_ids[alignment.aligned_pairs[k][2] + 1]
                IN ra = rb /\ ra # 0})
    IN IF len = 0 THEN RatZero
       ELSE CASE params.mode = "Lemma" -> <<alignment.lemma_matches, len>>
              [] params.mode = "Root" -> <<root_matches, len>>
              [] params.mode = "Combined" ->
                    <<2 * alignment.lemma_matches + alignment.root_only_matches, 2 * len>>

\* C1: every alignment the aligner returns has at least min_length aligned pairs and
\* a mode-specific similarity of at least min_similarity.
C1_AcceptedMeetsGates ==
    alignment.some =>
        /\ Len(alignment.aligned_pairs) >= params.min_length
        /\ RatLe(params.min_similarity, ReturnedSimilarity)

\* C2: every traceback step is counted exactly once: the aligned pairs are the lemma
\* matches, substitutions and root-only matches together, and the edge built from the
\* alignment has aligned_length = aligned pairs + gaps.
C2_StepsCountedOnce ==
    /\ alignment.some =>
          Len(alignment.aligned_pairs) =
              alignment.lemma_matches + alignment.substitutions + alignment.root_only_matches
    /\ edge.some => edge.aligned_length = Len(alignment.aligned_pairs) + alignment.gaps

\* an edge built from a gapped alignment that holds a lemma match on equal roots next
\* to a root-only match
C2_Witness ==
    /\ edge.some
    /\ alignment.gaps > 0
    /\ alignment.root_only_matches > 0
    /\ \E k \in 1..Len(alignment.aligned_pairs) :
          LET i == alignment.aligned_pairs[k][1] + 1
              j == alignment.aligned_pairs[k][2] + 1
          IN /\ window_a.lemma_ids[i] = window_b.lemma_ids[j]
             /\ window_a.root_ids[i] = window_b.root_ids[j]
             /\ window_a.root_ids[i] # 0

(***************************************************************************)
(* Properties of the merger (SpecMerge, SpecChain).                       *)
(***************************************************************************)
\* what a comparison of two results looks at: book pair, ranges and counts; the id
\* and the page tags are left out
EdgeCore(e) ==
    <<e.source_book_id, e.target_book_id, e.source_global_start, e.source_global_end,
      e.target_global_start, e.target_global_end, e.aligned_length, e.lemma_matches,
      e.substitutions, e.root_only_matches, e.gaps>>

SameEdges(xs, ys) ==
    /\ Len(xs) = Len(ys)
    /\ \E p \in Permutations(1..Len(xs)) :
          \A k \in 1..Len(xs) : EdgeCore(xs[k]) = EdgeCore(ys[p[k]])

SameBookPair(x, y) ==
    x.source_book_id = y.source_book_id /\ x.target_book_id = y.target_book_id

\* open-interval overlap on both sides
OverlapBothSides(x, y) ==
    /\ x.source_global_start < y.source_global_end
    /\ y.source_global_start < x.source_global_end
    /\ x.target_global_start < y.target_global_end
    /\ y.target_global_start < x.target_global_end

ContainedIn(inner, outer) ==
    /\ SameBookPair(inner, outer)
    /\ outer.source_global_start <= inner.source_global_start
    /\ inner.source_global_end <= outer.source_global_end
    /\ outer.target_global_start <= inner.target_global_start
    /\ inner.target_global_end <= outer.target_global_end

\* C3: for every permutation of the input edges, merge_overlapping_edges returns the
\* same edges with the same ranges and counts (edge ids ignored).
C3_MergeOrderIndependent ==
    m_pc = "merged" =>
        \A p \in Permutations(1..Len(m_edges)) :
            SameEdges(merge_overlapping_edges([k \in 1..Len(m_edges) |-> m_edges[p[k]]]),
                      m_merged)

\* C5: merging the output of merge_overlapping_edges again gives the same number of
\* edges with the same ranges and counts.
C5_MergeIdempotent ==
    m_pc = "remerged" => SameEdges(m_remerged, m_merged)

\* C6: no two output edges of merge_overlapping_edges that belong to the same book pair
\* overlap in both their source ranges and their target ranges.
C6_MaximalSpans ==
    m_pc = "merged" =>
        \A i \in 1..Len(m_merged) : \A j \in 1..Len(m_merged) :
            (i # j /\ SameBookPair(m_merged[i], m_merged[j]))
                => ~OverlapBothSides(m_merged[i], m_merged[j])

\* C8: the output of remove_subsumed_edges holds no edge contained in another output
\* edge of its book pair, and every dropped edge is contained in a retained edge.
C8_SubsumptionAntisymmetric ==
    m_pc = "retained" =>
        /\ \A i \in 1..Len(m_retained) : \A j \in 1..Len(m_retained) :
              i # j => ~ContainedIn(m_retained[i], m_retained[j])
        /\ \A k \in 1..Len(m_edges) :
              (\A i \in 1..Len(m_retained) : m_retained[i].id # m_edges[k].id)
                  => \E i \in 1..Len(m_retained) : ContainedIn(m_edges[k], m_retained[i])

\* the input edges in the order the merger sweeps them
SweepOrder == StableSortByKey(m_edges, OverlapSortKeys(m_edges))

SetMin(S) == CHOOSE x \in S : \A y \in S : x <= y

SetMax(S) == CHOOSE x \in S : \A y \in S : y <= x

\* the span [minimum start, maximum end) on both sides of the first k edges of es
SpanOf(es, k) ==
    [source_book_id |-> es[1].source_book_id,
     target_book_id |-> es[1].target_book_id,
     source_global_start |-> SetMin({es[i].source_global_start : i \in 1..k}),
     source_global_end |-> SetMax({es[i].source_global_end : i \in 1..k}),
     target_global_start |-> SetMin({es[i].target_global_start : i \in 1..k}),
     target_global_end |-> SetMax({es[i].target_global_end : i \in 1..k})]

\* edges of one book pair, each overlapping the span of those swept before it
ChainCase ==
    /\ Len(m_edges) >= 2
    /\ LET order == SweepOrder
       IN \A k \in 2..Len(m_edges) :
             /\ SameBookPair(order[1], order[k])
             /\ OverlapBothSides(SpanOf(order, k - 1), order[k])

\* no two input edges are of one book pair and overlap on both sides
NoPairOverlaps ==
    \A i \in 1..Len(m_edges) : \A j \in 1..Len(m_edges) :
        i # j => ~(SameBookPair(m_edges[i], m_edges[j])
                     /\ OverlapBothSides(m_edges[i], m_edges[j]))

BookPairs(es) == {<<es[k].source_book_id, es[k].target_book_id>> : k \in 1..Len(es)}

StreamLen == Len(flat_lemmas(w_stream))

\* the number of starts s = 0, stride, 2*stride, ... with s + window_size <= L
FullWindowCount ==
    Cardinality({k \in 0..StreamLen : k * params.stride + params.window_size <= StreamLen})

\* the start after the last full window
TrailingStart == FullWindowCount * params.stride

TrailingExpected ==
    TrailingStart < StreamLen /\ StreamLen - TrailingStart >= params.min_length

\* window number k (from 0) spans [s, e), is numbered k and holds the stream slice
WindowSpans(k, s, e) ==
    LET w == w_windows[k + 1]
    IN /\ w.global_start = s
       /\ w.global_end = e
       /\ w.window_idx = k
       /\ w.lemma_ids = [i \in 1..(e - s) |-> flat_lemmas(w_stream)[s + i]]
       /\ Len(w.root_ids) = Len(w.lemma_ids)

\* C9: for a stream of length L >= window_size the windower emits, in order, one full
\* window [s, s + window_size) per start s = 0, stride, 2*stride, ... that fits, then
\* a trailing window [s', L) exactly when s' < L and L - s' >= min_length; window k
\* is numbered k, holds the stream slice of its range and as many root ids.
C9_WindowList ==
    (w_pc = "done" /\ StreamLen >= params.window_size) =>
        /\ Len(w_windows) = FullWindowCount + (IF TrailingExpected THEN 1 ELSE 0)
        /\ \A k \in 0..(FullWindowCount - 1) :
              WindowSpans(k, k * params.stride, k * params.stride + params.window_size)
        /\ TrailingExpected => WindowSpans(FullWindowCount, TrailingStart, StreamLen)

\* two full windows and a trailing window of exactly min_length tokens, over a stream
\* of two non-empty pages
C9_Witness ==
    /\ w_pc = "done"
    /\ StreamLen >= params.window_size
    /\ FullWindowCount >= 2
    /\ Len(w_windows) = FullWindowCount + 1
    /\ StreamLen - TrailingStart = params.min_length
    /\ params.min_length > 0
    /\ w_windows[1].end_page # w_windows[Len(w_windows)].start_page

\* the windows of full length
FullWindows == {k \in 1..Len(w_windows) :
                   w_windows[k].global_end - w_windows[k].global_start = params.window_size}

Covered(pos) ==
    \E k \in FullWindows : w_windows[k].global_start <= pos /\ pos < w_windows[k].global_end

\* C10: for L >= window_size, window_size >= 1 and stride >= 1, every position in
\* [0, L - window_size + 1) lies in a full-length window.
C10_TotalCover ==
    (/\ w_pc = "done"
     /\ StreamLen >= params.window_size
     /\ params.window_size >= 1
     /\ params.stride >= 1) =>
        \A pos \in 0..(StreamLen - params.window_size) : Covered(pos)

\* C10 amended: the same with stride <= window_size.
C10_TotalCoverWithinStride ==
    (/\ w_pc = "done"
     /\ StreamLen >= params.window_size
     /\ params.window_size >= 1
     /\ params.stride >= 1
     /\ params.stride <= params.window_size) =>
        \A pos \in 0..(StreamLen - params.window_size) : Covered(pos)

\* overlapping full windows whose last one ends exactly at the end of the stream
C10_Witness ==
    /\ w_pc = "done"
    /\ params.stride >= 2
    /\ params.stride < params.window_size
    /\ Cardinality(FullWindows) >= 2
    /\ \E k \in FullWindows : w_windows[k].global_end = StreamLen

(***************************************************************************)
(* Properties of concurrent comparisons (SpecCompare).                    *)
(***************************************************************************)
\* the edges the edge builder has created: (comparison, task) pairs
Created ==
    {rk \in Runs \X (1..MaxBookLen) :
        rk[2] \in DOMAIN c_edges[rk[1]] /\ c_edges[rk[1]][rk[2]].some}

CreatedId(rk) == c_edges[rk[1]][rk[2]].id

ResultIds(r) == {c_result[r][i].id : i \in 1..Len(c_result[r])}

\* C4: under every interleaving of the alignment tasks of concurrent or successive
\* comparisons, no two created edges share an id, and the ids of the edges of a
\* returned result are pairwise distinct, within the result and across results.
C4_EdgeIdsUnique ==
    /\ \A x \in Created : \A y \in Created : x # y => CreatedId(x) # CreatedId(y)
    /\ \A r \in Runs :
          /\ \A i \in 1..Len(c_result[r]) : \A j \in 1..Len(c_result[r]) :
                i # j => c_result[r][i].id # c_result[r][j].id
          /\ ResultIds(r) \subseteq {CreatedId(x) : x \in {y \in Created : y[1] = r}}
    /\ \A r \in Runs : \A q \in Runs : r # q => ResultIds(r) \cap ResultIds(q) = {}

\* both comparisons returned edges, the first merged or filtered some of its edges
\* away, and its tasks drew ids before and after a task of the second
C4_Witness ==
    /\ \A r \in Runs : c_pc[r] = "returned" /\ Len(c_result[r]) > 0
    /\ Len(c_result[1]) < Cardinality({x \in Created : x[1] = 1})
    /\ \E x \in Created : \E y \in Created : \E z \in Created :
          /\ x[1] = 1 /\ y[1] = 2 /\ z[1] = 1
          /\ CreatedId(x) < CreatedId(y) /\ CreatedId(y) < CreatedId(z)

\* C11: a non-empty stream shorter than window_size yields exactly one window, the
\* whole stream, when its length is at least min_length, and no window otherwise; so
\* every window emitted for it is min_length to window_size tokens long.
C11_SmallStreamWindow ==
    (w_pc = "done" /\ 0 < StreamLen /\ StreamLen < params.window_size) =>
        /\ IF StreamLen >= params.min_length
           THEN /\ Len(w_windows) = 1
                /\ w_windows[1].global_start = 0
                /\ w_windows[1].global_end = StreamLen
           ELSE w_windows = <<>>
        /\ \A k \in 1..Len(w_windows) :
              /\ w_windows[k].global_end - w_windows[k].global_start >= params.min_length
              /\ w_windows[k].global_end - w_windows[k].global_start <= params.window_size

\* the tokens before page k of the stream, counted from the page lengths
PageStart(k) == SumSeq([i \in 1..(k - 1) |-> Len(w_stream.pages[i].lemma_ids)], 1)

\* position pos lies on the page `page` at offset `offset`: the page whose range
\* [start, end) holds pos, offset counted from the page's start
ResolvesTo(pos, page, offset) ==
    \E k \in 1..Len(w_stream.pages) :
        /\ PageStart(k) <= pos
        /\ pos < PageStart(k) + Len(w_stream.pages[k].lemma_ids)
        /\ page = <<w_stream.pages[k].part_index, w_stream.pages[k].page_id>>
        /\ offset = pos - PageStart(k)

\* C12: whatever the page layout (pages without tokens included), every emitted window
\* has start_page / start_offset resolving global_start and end_page / end_offset
\* resolving global_end - 1 to the page whose [start, end) range holds the position.
C12_PageResolution ==
    w_pc = "done" =>
        \A k \in 1..Len(w_windows) :
            /\ ResolvesTo(w_windows[k].global_start, w_windows[k].start_page,
                          w_windows[k].start_offset)
            /\ ResolvesTo(w_windows[k].global_end - 1, w_windows[k].end_page,
                          w_windows[k].end_offset)

\* a window that starts exactly where a page starts, right after a window that ended
\* on the page before
C12_Witness ==
    /\ w_pc = "done"
    /\ Len(w_windows) >= 2
    /\ \E k \in 2..Len(w_windows) :
          /\ w_windows[k].global_start > 0
          /\ w_windows[k].start_offset = 0
          /\ w_windows[k].start_page # w_windows[k - 1].end_page
          /\ w_windows[k - 1].global_end = w_windows[k].global_start

(***************************************************************************)
(* Properties of the candidate filter.                                     *)
(***************************************************************************)
\* the distinct runs of n >= 1 consecutive lemma ids of a window
NgramsOf(w, n) ==
    {SubSeq(w.lemma_ids, i, i + n - 1) : i \in {j \in 1..Len(w.lemma_ids) : n >= 1 /\ j + n - 1 <= Len(w.lemma_ids)}}

\* the number of distinct n-grams common to window idx_a and window idx_b
SharedNgrams(idx_a, idx_b) ==
    Cardinality(NgramsOf(f_windows_a[idx_a + 1], params.ngram_size)
                    \cap NgramsOf(f_windows_b[idx_b + 1], params.ngram_size))

AllPairs == (0..(Len(f_windows_a) - 1)) \X (0..(Len(f_windows_b) - 1))

CandidateSet == {f_candidates[k] : k \in 1..Len(f_candidates)}

NoDuplicates == \A i, j \in 1..Len(f_candidates) : i # j => f_candidates[i] # f_candidates[j]

\* C13: with brute_force unset the returned pairs are, each once, exactly the pairs
\* of windows that have at least min_shared_shingles distinct n-grams in common, for
\* every min_shared_shingles from 0 upwards.
C13_SharedShingleCandidates ==
    (f_pc = "returned" /\ ~params.brute_force) =>
        /\ NoDuplicates
        /\ CandidateSet = {pr \in AllPairs : SharedNgrams(pr[1], pr[2]) >= params.min_shared_shingles}


\* C14: with brute_force set the returned pairs are the cartesian product of the
\* window indices of the two books, each pair once, whatever ngram_size,
\* min_shared_shingles and the windows hold.
C14_BruteForceAllPairs ==
    (f_pc = "returned" /\ params.brute_force) =>
        /\ Len(f_candidates) = Len(f_windows_a) * Len(f_windows_b)
        /\ NoDuplicates
        /\ CandidateSet = AllPairs

\* a brute-force call on two or more windows a side that share no n-gram, made with a
\* positive min_shared_shingles
C14_Witness ==
    /\ f_pc = "returned"
    /\ params.brute_force
    /\ params.min_shared_shingles > 0
    /\ params.ngram_size > 0
    /\ Len(f_windows_a) >= 2
    /\ Len(f_windows_b) >= 2
    /\ \A pr \in AllPairs : SharedNgrams(pr[1], pr[2]) = 0
    /\ Len(f_candidates) = 4


\* the aligner's verdict on windows idx_a and idx_b, as an alignment task reaches it
Accepted(idx_a, idx_b) ==
    LET wa == f_windows_a[idx_a + 1]
        wb == f_windows_b[idx_b + 1]
    IN align_sequences(AlignInput(wa.lemma_ids, wb.lemma_ids, wa.root_ids, wb.root_ids,
                                  [use |-> FALSE, a |-> <<>>, b |-> <<>>], params)).some

\* C15: the shingle filter discards no true match: with brute_force unset, every pair
\* of windows whose alignment the aligner accepts is among the returned candidates.
C15_FilterKeepsMatches ==
    (f_pc = "returned" /\ ~params.brute_force) =>
        \A pr \in AllPairs : Accepted(pr[1], pr[2]) => pr \in CandidateSet


(***************************************************************************)
(* Properties of the counts of a merged edge (SpecMerge).                  *)
(***************************************************************************)
\* overlap * rate rounded to the nearest integer, halves away from zero
RoundShare(overlap, rate) == (2 * overlap * rate[1] + rate[2]) \div (2 * rate[2])

\* the number of positions the source ranges of a and b have in common
SourceOverlap(a, b) ==
    Max(0, Min(a.source_global_end, b.source_global_end)
               - Max(a.source_global_start, b.source_global_start))

\* C16: when two edges a (the accumulator) and b are merged, with O the overlap of
\* their source ranges, the merged lemma_matches is a.lemma_matches + b.lemma_matches
\* - round(O * a.lemma_similarity), not below 0, with rounding to nearest, and the
\* merged gaps is (a.gaps + b.gaps) / 2 in integer division.
C16_MergedCounts ==
    (m_pc # "input" /\ Len(m_edges) = 2 /\ Len(m_merged) = 1) =>
        LET a == SweepOrder[1]
            b == SweepOrder[2]
            rounded == RoundShare(SourceOverlap(a, b), a.lemma_similarity)
        IN /\ m_merged[1].lemma_matches = Max(0, a.lemma_matches + b.lemma_matches - rounded)
           /\ m_merged[1].gaps = (a.gaps + b.gaps) \div 2


(***************************************************************************)
(* compare.rs: the metric filter on the merged edges, with the parameters  *)
(* as main.rs overlays the command line on the defaults.                   *)
(***************************************************************************)
\* Option::or
Or(opt, default) == IF opt.some THEN opt ELSE default

\* the ComparisonParams literal of the Compare command: the given thresholds laid over
\* the defaults, and the no_filters flag
main_params(cli) ==
    [k \in DOMAIN DefaultParams \cup {"no_filters"} |->
        CASE k = "no_filters" -> cli.no_filters
          [] k = "min_weighted_similarity" ->
                 Or(cli.min_weighted_similarity, DefaultParams.min_weighted_similarity)
          [] k = "min_core_similarity" ->
                 Or(cli.min_core_similarity, DefaultParams.min_core_similarity)
          [] k = "min_span_coverage" ->
                 Or(cli.min_span_coverage, DefaultParams.min_span_coverage)
          [] k = "min_content_weight" ->
                 Or(cli.min_content_weight, DefaultParams.min_content_weight)
          [] OTHER -> DefaultParams[k]]

\* an Option<f32> threshold of the command line: absent, 0.5 or 1.0
Thresholds == {None, [some |-> TRUE, value |-> <<1, 2>>], [some |-> TRUE, value |-> RatOne]}

MetricParams ==
    {main_params([no_filters |-> nf, min_weighted_similarity |-> t1,
                  min_core_similarity |-> t2, min_span_coverage |-> t3,
                  min_content_weight |-> t4]) :
        nf \in BOOLEAN, t1 \in Thresholds, t2 \in Thresholds, t3 \in Thresholds,
        t4 \in Thresholds}

\* a weighted alignment of two diagonal steps at positions 3 * id on, which the
\* counts of m make up: all four metrics of the edge follow from them
MetricAlignment(id, m) ==
    [some |-> TRUE, start_a |-> 3 * id, end_a |-> 3 * id + 2, start_b |-> 3 * id,
     end_b |-> 3 * id + 2 + m.gaps, aligned_pairs |-> <<<<0, 0>>, <<1, 1>>>>,
     lemma_matches |-> m.lemma_matches, substitutions |-> 2 - m.lemma_matches,
     root_only_matches |-> 0, gaps |-> m.gaps, score |-> 0,
     match_weight_sum |-> m.weight * m.lemma_matches]

\* one or two lemma matches, no or one gap, every match of weight 0.5 or 1.0
MetricCounts ==
    {[lemma_matches |-> lm, gaps |-> g, weight |-> w] :
        lm \in {1, 2}, g \in {0, 1}, w \in {1, 2}}

MetricEdge(id, m) ==
    alignment_to_edge(id, TagWindow(1, id), TagWindow(2, id), MetricAlignment(id, m))

MetricInit ==
    /\ params \in MetricParams
    /\ \E n \in 0..MaxMetricEdges : \E ms \in [1..n -> MetricCounts] :
           mf_edges = [k \in 1..n |-> MetricEdge(k - 1, ms[k])]
    /\ mf_filtered = <<>>
    /\ mf_pc = "merged"
    /\ EDGE_COUNTER = Len(mf_edges)
    /\ AlignIdle
    /\ MergeIdle
    /\ WindowIdle
    /\ CompareIdle
    /\ FilterIdle
    /\ BatchIdle
    /\ DriverIdle

FilterEdges ==
    /\ mf_pc = "merged"
    /\ mf_filtered' = filter_edges_by_params(mf_edges, params)
    /\ mf_pc' = "filtered"
    /\ UNCHANGED <<mf_edges, params, EDGE_COUNTER, NonMetricVars>>

MetricNext == FilterEdges

SpecMetric == MetricInit /\ [][MetricNext]_vars

(***************************************************************************)
(* Properties of the metric filter (SpecMetric).                           *)
(***************************************************************************)
RatGe(x, y) == x[1] * y[2] >= y[1] * x[2]

\* the edge meets the threshold, or the threshold is not set
MeetsThreshold(value, min) == min.some => RatGe(value, min.value)

MeetsAll(e) ==
    /\ MeetsThreshold(e.weighted_similarity, params.min_weighted_similarity)
    /\ MeetsThreshold(e.core_similarity, params.min_core_similarity)
    /\ MeetsThreshold(e.span_coverage, params.min_span_coverage)
    /\ MeetsThreshold(e.content_weight, params.min_content_weight)

MeetingIndices == {k \in 1..Len(mf_edges) : MeetsAll(mf_edges[k])}

\* the i-th smallest index of the edges that meet every set threshold
NthMeeting(i) ==
    CHOOSE k \in MeetingIndices : Cardinality({j \in MeetingIndices : j <= k}) = i

\* C17: the metric filter returns, in input order and unchanged, exactly the merged
\* edges that meet every threshold that is set; a threshold that is not set drops
\* nothing.
C17_MetricFilter ==
    mf_pc = "filtered" =>
        /\ Len(mf_filtered) = Cardinality(MeetingIndices)
        /\ \A i \in 1..Len(mf_filtered) : mf_filtered[i] = mf_edges[NthMeeting(i)]

\* a threshold is set and another is not; the first edge falls below the set one and is
\* dropped, the second sits exactly on it and is retained
C17_Witness ==
    /\ mf_pc = "filtered"
    /\ params.min_core_similarity.some
    /\ ~params.min_span_coverage.some
    /\ Len(mf_edges) = 2
    /\ RatLt(mf_edges[1].core_similarity, params.min_core_similarity.value)
    /\ mf_edges[2].core_similarity = params.min_core_similarity.value
    /\ RatLt(mf_edges[2].span_coverage, RatOne)
    /\ mf_filtered = <<mf_edges[2]>>

\* C18: when no_filters is set the metric filter drops no merged edge, whatever
\* thresholds are set with it.
C18_NoFiltersKeepsAll ==
    (mf_pc = "filtered" /\ params.no_filters) => mf_filtered = mf_edges


(***************************************************************************)
(* Properties of the edges a comparison returns.                           *)
(***************************************************************************)
NoThresholds ==
    /\ ~params.min_weighted_similarity.some
    /\ ~params.min_core_similarity.some
    /\ ~params.min_span_coverage.some
    /\ ~params.min_content_weight.some

\* C20: in Lemma mode with no metric threshold set, every edge of the result of a
\* comparison has lemma_similarity, lemma_matches / aligned_length, at least
\* min_similarity.
C20_ResultSimilarity ==
    (params.mode = "Lemma" /\ NoThresholds) =>
        \A r \in DOMAIN c_pc :
            c_pc[r] = "returned" =>
                \A k \in 1..Len(c_result[r]) :
                    /\ c_result[r][k].lemma_similarity
                           = Rat(c_result[r][k].lemma_matches, c_result[r][k].aligned_length)
                    /\ RatGe(c_result[r][k].lemma_similarity, params.min_similarity)


\* C19: a comparison of two streams with the same lemma sequence, long enough for
\* min_length and min_shared_shingles and with no metric threshold set, returns at
\* least one edge that starts at position 0 on both sides and has core_similarity 1.0.
C19_IdenticalStreamsEdge ==
    \A r \in DOMAIN c_pc :
        (/\ c_pc[r] = "returned"
         /\ NoThresholds
         /\ flat_lemmas(c_streams[r].a) = flat_lemmas(c_streams[r].b)
         /\ Len(flat_lemmas(c_streams[r].a)) >= params.window_size
         /\ params.window_size >= params.min_length
         /\ params.window_size - params.ngram_size + 1 >= params.min_shared_shingles) =>
            \E k \in 1..Len(c_result[r]) :
                /\ c_result[r][k].source_global_start = 0
                /\ c_result[r][k].target_global_start = 0
                /\ c_result[r][k].core_similarity = RatOne


(***************************************************************************)
(* Properties of a comparison of paged books (SpecPaged).                  *)
(***************************************************************************)
NoWeights == [use |-> FALSE, a |-> <<>>, b |-> <<>>]

\* the aligner's answer on two lemma sequences without roots
AlignLemmas(la, lb) ==
    align_sequences(AlignInput(la, lb, Zeros(Len(la)), Zeros(Len(lb)), NoWeights, params))

\* the lemma sequences of the windows of comparison r, and the empty one
WindowTexts(r) ==
    {<<>>} \cup {c_windows[r].a[k].lemma_ids : k \in 1..Len(c_windows[r].a)}
           \cup {c_windows[r].b[k].lemma_ids : k \in 1..Len(c_windows[r].b)}

\* C21: align_sequences returns None whenever either sequence is empty, and a
\* comparison in which either stream has no token returns no edge, edge_count 0,
\* and coverages and average similarities 0.0.
C21_EmptyInputs ==
    \A r \in DOMAIN c_pc :
        /\ \A t \in WindowTexts(r) : AlignLemmas(<<>>, t) = None /\ AlignLemmas(t, <<>>) = None
        /\ (/\ c_pc[r] = "returned"
            /\ (c_streams[r].a.total_tokens = 0 \/ c_streams[r].b.total_tokens = 0)) =>
               /\ c_result[r] = <<>>
               /\ c_summary[r].edge_count = 0
               /\ c_summary[r].book_a_coverage = RatZero
               /\ c_summary[r].book_b_coverage = RatZero
               /\ c_summary[r].avg_similarity = RatZero
               /\ c_summary[r].avg_weighted_similarity = RatZero

\* a returned comparison of a book of two empty pages with a book that has windows
C21_Witness ==
    /\ 1 \in DOMAIN c_pc
    /\ c_pc[1] = "returned"
    /\ Len(c_streams[1].a.pages) = 2
    /\ c_streams[1].a.total_tokens = 0
    /\ Len(c_windows[1].b) = 2
    /\ c_result[1] = <<>>


(***************************************************************************)
(* db.rs and compare.rs: loading the books of a batch of pairs and         *)
(* comparing them.  The page_tokens table is a function from book id to    *)
(* the rows of the book in (part_index, page_id) order; a token blob is a  *)
(* sequence of bytes.  compare_book_pairs maps over the pairs in order and *)
(* then collects the results.                                              *)
(***************************************************************************)
\* the mappings of token_definitions: token ids 0 and 1 are known
token_to_lemma == <<7, 8>>
token_to_root == <<0, 3>>

\* u32::to_le_bytes
to_le_bytes(x) == <<x % 256, (x \div 256) % 256, (x \div 65536) % 256, (x \div 16777216) % 256>>

\* u32::from_le_bytes
from_le_bytes(c) == c[1] + 256 * c[2] + 65536 * c[3] + 16777216 * c[4]

\* chunks_exact(4) mapped through from_le_bytes: a trailing partial chunk is left out
unpack(token_blob) ==
    [k \in 1..(Len(token_blob) \div 4) |-> from_le_bytes(SubSeq(token_blob, 4 * k - 3, 4 * k))]

\* the table lookup of the token loader: an id outside the table gives 0
lookup_or_zero(table, tid) == IF tid < Len(table) THEN table[tid + 1] ELSE 0

\* filter_map of the lemma loader: the lemmas of the ids inside the table
known_lemmas(token_ids, table) ==
    LET known == SelectSeq(token_ids, LAMBDA tid : tid < Len(table))
    IN [k \in 1..Len(known) |-> table[known[k] + 1]]

DbError == {"InvalidTokenBlob", "BookNotFound"}

RECURSIVE LemmaRows_FirstRow(_, _, _, _)
LemmaRows_FirstRow(rows, k, pages, table) ==
    IF k > Len(rows) THEN [ok |-> TRUE, pages |-> pages]
    ELSE IF k = 1 /\ Len(rows[k].token_blob) % 4 # 0
    THEN [ok |-> FALSE, err |-> "InvalidTokenBlob"]
    ELSE LemmaRows_FirstRow(rows, k + 1,
             Append(pages, [part_index |-> rows[k].part_index, page_id |-> rows[k].page_id,
                            lemma_ids |-> known_lemmas(unpack(rows[k].token_blob), table)]),
             table)

\* the row loop of load_book_lemma_stream from row k on
RECURSIVE LemmaRows(_, _, _, _)
LemmaRows(rows, k, pages, table) ==
    IF k > Len(rows) THEN [ok |-> TRUE, pages |-> pages]
    ELSE IF Len(rows[k].token_blob) % 4 # 0 THEN [ok |-> FALSE, err |-> "InvalidTokenBlob"]
    ELSE LemmaRows(rows, k + 1,
                   Append(pages, [part_index |-> rows[k].part_index,
                                  page_id |-> rows[k].page_id,
                                  lemma_ids |-> known_lemmas(unpack(rows[k].token_blob), table)]),
                   table)

load_book_lemma_stream(db, book_id, table) ==
    LET loaded == LemmaRows(db[book_id], 1, <<>>, table)
    IN IF ~loaded.ok THEN loaded
       ELSE IF Len(loaded.pages) = 0 THEN [ok |-> FALSE, err |-> "BookNotFound"]
       ELSE [ok |-> TRUE,
             stream |-> [book_id |-> book_id,
                         total_tokens |->
                             SumSeq([k \in 1..Len(loaded.pages) |->
                                        Len(loaded.pages[k].lemma_ids)], 1),
                         pages |-> loaded.pages]]

\* the row loop of load_book_token_stream_with_root from row k on
RECURSIVE TokenRows(_, _, _, _, _)
TokenRows(rows, k, pages, lemma_table, root_table) ==
    IF k > Len(rows) THEN [ok |-> TRUE, pages |-> pages]
    ELSE IF Len(rows[k].token_blob) % 4 # 0 THEN [ok |-> FALSE, err |-> "InvalidTokenBlob"]
    ELSE LET token_ids == unpack(rows[k].token_blob)
         IN TokenRows(rows, k + 1,
                Append(pages,
                       [part_index |-> rows[k].part_index, page_id |-> rows[k].page_id,
                        token_ids |-> token_ids,
                        lemma_ids |-> [i \in 1..Len(token_ids) |->
                                          lookup_or_zero(lemma_table, token_ids[i])],
                        root_ids |-> [i \in 1..Len(token_ids) |->
                                         lookup_or_zero(root_table, token_ids[i])]]),
                lemma_table, root_table)

load_book_token_stream_with_root(db, book_id, lemma_table, root_table) ==
    LET loaded == TokenRows(db[book_id], 1, <<>>, lemma_table, root_table)
    IN IF ~loaded.ok THEN loaded
       ELSE IF Len(loaded.pages) = 0 THEN [ok |-> FALSE, err |-> "BookNotFound"]
       ELSE [ok |-> TRUE,
             stream |-> [book_id |-> book_id,
                         total_tokens |->
                             SumSeq([k \in 1..Len(loaded.pages) |->
                                        Len(loaded.pages[k].token_ids)], 1),
                         pages |-> loaded.pages]]

\* token ids a blob can hold: one inside the tables, one outside
BlobTokens == {1, 300}

RECURSIVE Concat(_, _)
Concat(seqs, k) == IF k > Len(seqs) THEN <<>> ELSE seqs[k] \o Concat(seqs, k + 1)

\* the blob of the token ids, and spare bytes after them
BlobOf(token_ids, spare) ==
    Concat([k \in 1..Len(token_ids) |-> to_le_bytes(token_ids[k])], 1) \o [i \in 1..spare |-> 0]

\* the rows of a book: up to MaxRows pages of up to MaxBlobTokens token ids, a blob
\* either whole or with two bytes too many
BookRows ==
    UNION {[1..n -> {[tids |-> tids, spare |-> sp] :
                        tids \in UNION {[1..m -> BlobTokens] : m \in 0..MaxBlobTokens},
                        sp \in {0, 2}}] : n \in 0..MaxRows}

RowsOf(shape) ==
    [k \in 1..Len(shape) |-> [part_index |-> 1, page_id |-> k,
                              token_blob |-> BlobOf(shape[k].tids, shape[k].spare)]]

\* the batches: book 1 against book 2, alone or before or after book 1 against itself
PairLists == {<<<<1, 2>>>>, <<<<1, 1>>, <<1, 2>>>>, <<<<1, 2>>, <<1, 1>>>>}

BatchParams ==
    [DefaultParams EXCEPT !.window_size = 3, !.stride = 2, !.min_length = 1,
                          !.min_similarity = <<1, 2>>, !.brute_force = TRUE]

\* book 1 is one page of two known tokens, book 2 any rows
BatchInit ==
    /\ \E shape \in BookRows :
           db_pages = [b \in {1, 2} |->
                          IF b = 1 THEN <<[part_index |-> 1, page_id |-> 1,
                                           token_blob |-> BlobOf(<<1, 1>>, 0)]>>
                          ELSE RowsOf(shape)]
    /\ b_pairs \in PairLists
    /\ b_errors = [k \in 1..Len(b_pairs) |-> "none"]
    /\ b_result = [returned |-> FALSE]
    /\ t_stream = [returned |-> FALSE]
    /\ params = BatchParams
    /\ c_streams = [k \in 1..Len(b_pairs) |-> <<>>]
    /\ c_windows = [k \in 1..Len(b_pairs) |-> [a |-> <<>>, b |-> <<>>]]
    /\ c_candidates = [k \in 1..Len(b_pairs) |-> <<>>]
    /\ c_done = [k \in 1..Len(b_pairs) |-> {}]
    /\ c_edges = [k \in 1..Len(b_pairs) |-> <<>>]
    /\ c_result = [k \in 1..Len(b_pairs) |-> <<>>]
    /\ c_summary = [k \in 1..Len(b_pairs) |-> <<>>]
    /\ c_pc = [k \in 1..Len(b_pairs) |-> "waiting"]
    /\ EDGE_COUNTER = 0
    /\ AlignIdle
    /\ MergeIdle
    /\ WindowIdle
    /\ FilterIdle
    /\ MetricIdle
    /\ DriverIdle

PairOver(k) == c_pc[k] \in {"returned", "failed"}

\* the head of the closure on pair k: both loads, `?` on either
LoadPair(k) ==
    /\ k \in DOMAIN c_pc
    /\ c_pc[k] = "waiting"
    /\ k > 1 => PairOver(k - 1)
    /\ LET stream_a == load_book_lemma_stream(db_pages, b_pairs[k][1], token_to_lemma)
           stream_b == load_book_lemma_stream(db_pages, b_pairs[k][2], token_to_lemma)
       IN IF ~stream_a.ok
          THEN /\ b_errors' = [b_errors EXCEPT ![k] = stream_a.err]
               /\ c_pc' = [c_pc EXCEPT ![k] = "failed"]
               /\ UNCHANGED c_streams
          ELSE IF ~stream_b.ok
          THEN /\ b_errors' = [b_errors EXCEPT ![k] = stream_b.err]
               /\ c_pc' = [c_pc EXCEPT ![k] = "failed"]
               /\ UNCHANGED c_streams
          ELSE /\ c_streams' = [c_streams EXCEPT ![k] = [a |-> stream_a.stream,
                                                         b |-> stream_b.stream]]
               /\ c_pc' = [c_pc EXCEPT ![k] = "called"]
               /\ UNCHANGED b_errors
    /\ UNCHANGED <<db_pages, b_pairs, b_result, t_stream, c_windows, c_candidates, c_done,
                   c_edges, c_result, c_summary, params, EDGE_COUNTER, AlignVars, MergeVars, WindowVars,
                   FilterVars, MetricVars, DriverVars>>

\* results.into_iter().collect(): the first error, or all the results
CollectResults ==
    /\ ~b_result.returned
    /\ \A k \in DOMAIN c_pc : PairOver(k)
    /\ LET failed == {k \in DOMAIN c_pc : c_pc[k] = "failed"}
       IN b_result' =
              IF failed # {}
              THEN [returned |-> TRUE, ok |-> FALSE,
                    err |-> b_errors[CHOOSE k \in failed : \A j \in failed : k <= j]]
              ELSE [returned |-> TRUE, ok |-> TRUE,
                    results |-> [k \in DOMAIN c_pc |->
                                    [edges |-> c_result[k], summary |-> c_summary[k]]]]
    /\ UNCHANGED <<db_pages, b_pairs, b_errors, t_stream, params, EDGE_COUNTER, CompareVars,
                   AlignVars, MergeVars, WindowVars,
                   FilterVars, MetricVars, DriverVars>>

\* the token loader on book 2, as compare_books_with_text calls it
LoadTokenStream ==
    /\ ~t_stream.returned
    /\ LET loaded == load_book_token_stream_with_root(db_pages, 2, token_to_lemma,
                                                       token_to_root)
       IN t_stream' = [returned |-> TRUE, result |-> loaded]
    /\ UNCHANGED <<db_pages, b_pairs, b_errors, b_result, params, EDGE_COUNTER, CompareVars,
                   AlignVars, MergeVars, WindowVars,
                   FilterVars, MetricVars, DriverVars>>

BatchNext ==
    \/ \E k \in Runs : LoadPair(k)
    \/ CompareNext
    \/ CollectResults
    \/ LoadTokenStream

SpecBatch == BatchInit /\ [][BatchNext]_vars


(***************************************************************************)
(* Properties of the loaders and of a batch of pairs (SpecBatch).          *)
(***************************************************************************)
BadBlob(book_id) ==
    \E k \in 1..Len(db_pages[book_id]) : Len(db_pages[book_id][k].token_blob) % 4 # 0

NoRows(book_id) == db_pages[book_id] = <<>>

\* the error the rows of a book call for, "none" when they call for none
ErrorOf(book_id) ==
    IF BadBlob(book_id) THEN "InvalidTokenBlob"
    ELSE IF NoRows(book_id) THEN "BookNotFound"
    ELSE "none"

FailsWith(loaded, err) == ~loaded.ok /\ loaded.err = err /\ "stream" \notin DOMAIN loaded

\* C22: loading a book fails with InvalidTokenBlob whenever the blob of any page has a
\* byte length not divisible by 4, also when earlier pages were valid, and with
\* BookNotFound when the book has no page rows; no stream is returned then, and
\* compare_book_pairs returns an error and no results if any pair fails.
C22_LoadErrors ==
    /\ \A b \in DOMAIN db_pages :
           ErrorOf(b) # "none" =>
               FailsWith(load_book_lemma_stream(db_pages, b, token_to_lemma), ErrorOf(b))
    /\ (t_stream.returned /\ ErrorOf(2) # "none") => FailsWith(t_stream.result, ErrorOf(2))
    /\ \A k \in DOMAIN c_pc :
           (c_pc[k] # "waiting" /\ (ErrorOf(b_pairs[k][1]) # "none"
                                       \/ ErrorOf(b_pairs[k][2]) # "none")) =>
               /\ c_pc[k] = "failed"
               /\ c_streams[k] = <<>>
               /\ b_errors[k] \in DbError
    /\ (b_result.returned /\ \E k \in DOMAIN c_pc : c_pc[k] = "failed") =>
           /\ ~b_result.ok
           /\ b_result.err \in DbError
           /\ "results" \notin DOMAIN b_result

C22_Witness ==
    /\ b_result.returned
    /\ ~b_result.ok
    /\ b_result.err = "InvalidTokenBlob"
    /\ b_pairs = <<<<1, 1>>, <<1, 2>>>>
    /\ c_pc = <<"returned", "failed">>
    /\ Len(c_result[1]) > 0
    /\ Len(db_pages[2]) = 2
    /\ Len(db_pages[2][1].token_blob) = 4
    /\ Len(db_pages[2][2].token_blob) = 6


\* the number of token ids stored in the blobs of a book
StoredTokens(book_id) ==
    SumSeq([k \in 1..Len(db_pages[book_id]) |-> Len(db_pages[book_id][k].token_blob) \div 4], 1)

\* the lemma a token id stands for: that of the table, 0 for an id outside it
LemmaFor(tid) == IF tid + 1 \in DOMAIN token_to_lemma THEN token_to_lemma[tid + 1] ELSE 0

\* one lemma per token id on every page, and total_tokens the count of both
OneLemmaPerToken(stream, book_id) ==
    /\ Len(stream.pages) = Len(db_pages[book_id])
    /\ \A k \in 1..Len(stream.pages) :
           LET token_ids == unpack(db_pages[book_id][k].token_blob)
           IN stream.pages[k].lemma_ids = [i \in 1..Len(token_ids) |-> LemmaFor(token_ids[i])]
    /\ stream.total_tokens = StoredTokens(book_id)
    /\ stream.total_tokens = Len(flat_lemmas(stream))

\* C23: in both loaders every token id of a page blob yields exactly one entry of the
\* page's lemma sequence, an id outside the table yielding lemma 0, so total_tokens is
\* the number of token ids stored in the blobs and the length of the concatenated
\* lemma sequences.
C23_OneLemmaPerToken ==
    /\ (t_stream.returned /\ t_stream.result.ok) => OneLemmaPerToken(t_stream.result.stream, 2)
    /\ \A k \in DOMAIN c_pc :
           c_pc[k] \notin {"waiting", "failed"} =>
               /\ OneLemmaPerToken(c_streams[k].a, b_pairs[k][1])
               /\ OneLemmaPerToken(c_streams[k].b, b_pairs[k][2])


(***************************************************************************)
(* main.rs: the Compare command builds the parameters from its options and *)
(* calls the comparison, whose first step is the windower.  The windower's *)
(* while loop is taken one iteration at a time here.                       *)
(***************************************************************************)
NonDriverVars == <<AlignVars, MergeVars, CompareVars, FilterVars, MetricVars, BatchVars>>

unwrap_or(opt, default) == IF opt.some THEN opt.value ELSE default

\* the window options of the ComparisonParams literal, over the thresholds of main_params
compare_params(cli) ==
    [main_params(cli) EXCEPT !.window_size = unwrap_or(cli.window_size, DefaultParams.window_size),
                             !.stride = unwrap_or(cli.stride, DefaultParams.stride),
                             !.ngram_size = unwrap_or(cli.ngram_size, DefaultParams.ngram_size),
                             !.min_length = unwrap_or(cli.min_length, DefaultParams.min_length)]

Given(values) == {None} \cup {[some |-> TRUE, value |-> v] : v \in values}

\* the options a user can give: each usize option absent or any small number, 0 included
CliOptions ==
    [no_filters : {FALSE}, min_weighted_similarity : {None}, min_core_similarity : {None},
     min_span_coverage : {None}, min_content_weight : {None},
     include_text : BOOLEAN,
     window_size : Given(1..MaxDriverLen), stride : Given(0..2), ngram_size : Given(0..1),
     min_length : Given({1})]

DriverInit ==
    /\ d_cli \in CliOptions
    /\ d_start = 0
    /\ \E n \in 0..MaxDriverLen : w_stream = StreamOf(1, <<n>>)
    /\ w_with_roots = FALSE
    /\ w_windows = <<>>
    /\ w_pc = "parsed"
    /\ params = DefaultParams
    /\ EDGE_COUNTER = 0
    /\ AlignIdle
    /\ MergeIdle
    /\ CompareIdle
    /\ FilterIdle
    /\ MetricIdle
    /\ BatchIdle

\* main: the parameters are built and the comparison is called, with text (windows
\* with roots) or without
CallCompare ==
    /\ w_pc = "parsed"
    /\ params' = compare_params(d_cli)
    /\ w_with_roots' = d_cli.include_text
    /\ w_pc' = "called"
    /\ UNCHANGED <<w_stream, w_windows, d_cli, d_start, EDGE_COUNTER, NonDriverVars>>

\* the windower up to its loop: the empty and the small book return at once
EnterWindower ==
    /\ w_pc = "called"
    /\ LET len == Len(flat_lemmas(w_stream))
       IN IF len = 0 \/ len < params.window_size
          THEN /\ w_windows' = generate_windows(w_stream, params, w_with_roots)
               /\ w_pc' = "returned"
          ELSE /\ w_windows' = <<>>
               /\ w_pc' = "looping"
    /\ d_start' = 0
    /\ UNCHANGED <<w_stream, w_with_roots, params, d_cli, EDGE_COUNTER, NonDriverVars>>

\* one iteration of the while loop; the model stops counting at MaxDriverWindows
LoopStep ==
    /\ w_pc = "looping"
    /\ LoopContinues(d_start, Len(flat_lemmas(w_stream)), params)
    /\ Len(w_windows) < MaxDriverWindows
    /\ LET end == d_start + params.window_size
       IN w_windows' = Append(w_windows, MakeWindow(w_stream, w_with_roots, Len(w_windows),
                                                    d_start, end, end - 1))
    /\ d_start' = d_start + params.stride
    /\ UNCHANGED <<w_stream, w_with_roots, w_pc, params, d_cli, EDGE_COUNTER, NonDriverVars>>

\* the loop condition fails: the final partial window, and the return
LoopExit ==
    /\ w_pc = "looping"
    /\ ~LoopContinues(d_start, Len(flat_lemmas(w_stream)), params)
    /\ LET len == Len(flat_lemmas(w_stream))
       IN w_windows' =
              IF HasPartialWindow(d_start, len, params)
              THEN Append(w_windows, MakeWindow(w_stream, w_with_roots, Len(w_windows),
                                                d_start, len, len - 1))
              ELSE w_windows
    /\ w_pc' = "returned"
    /\ UNCHANGED <<w_stream, w_with_roots, params, d_cli, d_start, EDGE_COUNTER,
                   NonDriverVars>>

DriverNext ==
    \/ CallCompare
    \/ EnterWindower
    \/ LoopStep
    \/ LoopExit

SpecDriver == DriverInit /\ [][DriverNext]_vars

(***************************************************************************)
(* Properties of the Compare command (SpecDriver).                         *)
(***************************************************************************)
\* C24: the compare driver rejects stride = 0 and ngram_size = 0 before invoking the
\* pipeline, so the windower only ever runs with stride >= 1 and ngram_size >= 1, and
\* window generation terminates: it never pushes more windows than the stream has
\* tokens.
C24_DriverRejectsZero ==
    w_pc \in {"called", "looping", "returned"} =>
        /\ params.stride >= 1
        /\ params.ngram_size >= 1
        /\ Len(w_windows) <= Len(flat_lemmas(w_stream))

\* with the stride at least 1 the loop, taken step by step, returns what the windower
\* returns
DriverLoopAgrees ==
    (w_pc = "returned" /\ params.stride >= 1) =>
        w_windows = generate_windows(w_stream, params, w_with_roots)


(***************************************************************************)
(* One aligner call per window pair with the similarity gate at one half,  *)
(* the setting of AlignParams under which more alignments are returned.    *)
(***************************************************************************)
TraceInit ==
    /\ window_a \in {TestWindow(1, ts) : ts \in TokenSeqs}
    /\ window_b \in {TestWindow(2, ts) : ts \in TokenSeqs}
    /\ params \in {p \in AlignParams : p.min_similarity = <<1, 2>>}
    /\ weights \in WeightChoices
    /\ alignment = None
    /\ edge = None
    /\ al_pc = "ready"
    /\ EDGE_COUNTER = 0
    /\ MergeIdle
    /\ WindowIdle
    /\ CompareIdle
    /\ FilterIdle
    /\ MetricIdle
    /\ BatchIdle
    /\ DriverIdle

SpecTrace == TraceInit /\ [][AlignNext]_vars

(***************************************************************************)
(* Properties of the traceback.  The matrix is restated as the function    *)
(* the recurrence defines, the path as the walk the rule defines.          *)
(***************************************************************************)
\* s(i, j): the lemma score (weighted when weights are used) for equal lemmas where
\* the mode looks at lemmas, the root score for equal non-zero roots, else the
\* mismatch penalty
StepScore(in, i, j) ==
    LET lemma_eq == in.lemmas_a[i] = in.lemmas_b[j]
        root_a == IF i <= Len(in.roots_a) THEN in.roots_a[i] ELSE 0
        root_b == IF j <= Len(in.roots_b) THEN in.roots_b[j] ELSE 0
        root_eq == root_a = root_b /\ root_a # 0
        lemma_gain == IF in.w.use
                      THEN WeightedLemmaScore(in.lemmas_a[i], in.lemmas_b[j], in.w.a, in.w.b,
                                              in.p)
                      ELSE in.p.lemma_score
    IN CASE in.p.mode = "Lemma" -> IF lemma_eq THEN lemma_gain ELSE in.p.mismatch_penalty
         [] in.p.mode = "Root" -> IF root_eq THEN in.p.lemma_score ELSE in.p.mismatch_penalty
         [] in.p.mode = "Combined" ->
                IF lemma_eq THEN lemma_gain
                ELSE IF root_eq THEN in.p.root_score
                ELSE in.p.mismatch_penalty

\* the cells of H in row-major order from cell k on, each from the cells before it:
\* cell (i, j) is entry i * (m + 1) + j + 1 of the sequence
RECURSIVE RecurrenceFrom(_, _, _)
RecurrenceFrom(in, k, cells) ==
    LET width == Len(in.lemmas_b) + 1
        i == k \div width
        j == k % width
        value == IF i = 0 \/ j = 0 THEN 0
                 ELSE Max(Max(0, cells[k - width] + StepScore(in, i, j)),
                          Max(cells[k - width + 1] + in.p.gap_penalty,
                              cells[k] + in.p.gap_penalty))
    IN IF k >= (Len(in.lemmas_a) + 1) * width THEN cells
       ELSE RecurrenceFrom(in, k + 1, Append(cells, value))

\* H as the recurrence defines it, on 0..n x 0..m
Recurrence(in) ==
    LET cells == RecurrenceFrom(in, 0, <<>>)
    IN [c \in (0..Len(in.lemmas_a)) \X (0..Len(in.lemmas_b)) |->
           cells[c[1] * (Len(in.lemmas_b) + 1) + c[2] + 1]]

AllCells(in) == (0..Len(in.lemmas_a)) \X (0..Len(in.lemmas_b))

RowMajorBefore(c, d) == c[1] < d[1] \/ (c[1] = d[1] /\ c[2] < d[2])

\* the first cell in row-major order that holds the largest value of H, which is cell
\* (0, 0) when no cell is above 0
FirstMaxCell(in, H) ==
    LET width == Len(in.lemmas_b) + 1
        count == (Len(in.lemmas_a) + 1) * width
        CellAt(k) == <<k \div width, k % width>>
        values == {H[c] : c \in AllCells(in)}
        largest == CHOOSE v \in values : \A w \in values : w <= v
        first == CHOOSE k \in 0..(count - 1) :
                     /\ H[CellAt(k)] = largest
                     /\ \A l \in 0..(k - 1) : H[CellAt(l)] # largest
    IN CellAt(first)

\* the step the rule takes at cell (i, j): the first of diagonal, up, left whose
\* predecessor value plus step score is the value of the cell
RuleStep(in, H, i, j) ==
    IF H[i, j] = H[i - 1, j - 1] + StepScore(in, i, j) THEN "diagonal"
    ELSE IF H[i, j] = H[i - 1, j] + in.p.gap_penalty THEN "up"
    ELSE IF H[i, j] = H[i, j - 1] + in.p.gap_penalty THEN "left"
    ELSE "none"

\* the walk from (i, j) down to a cell of value 0 or the border: the pairs in walk
\* order, the gaps, the sum of the step scores, and whether every step had a rule
RECURSIVE Walk(_, _, _, _, _)
Walk(in, H, i, j, acc) ==
    IF i = 0 \/ j = 0 \/ H[i, j] <= 0 THEN acc
    ELSE LET step == RuleStep(in, H, i, j)
         IN CASE step = "diagonal" ->
                    Walk(in, H, i - 1, j - 1,
                         [acc EXCEPT !.pairs = Append(@, <<i - 1, j - 1>>),
                                     !.sum = @ + StepScore(in, i, j)])
              [] step = "up" ->
                    Walk(in, H, i - 1, j,
                         [acc EXCEPT !.gaps = @ + 1, !.sum = @ + in.p.gap_penalty])
              [] step = "left" ->
                    Walk(in, H, i, j - 1,
                         [acc EXCEPT !.gaps = @ + 1, !.sum = @ + in.p.gap_penalty])
              [] OTHER -> [acc EXCEPT !.ok = FALSE]

\* C25: the traceback is consistent with the DP matrix: the score of a returned
\* alignment is the largest cell of H under the recurrence, the traceback starts at
\* the first such cell in row-major order, every step moves to a predecessor whose
\* value plus the step score is the value of the current cell (diagonal, then up, then
\* left), and the score is the sum of s(i, j) over the aligned pairs plus gap_penalty
\* times the gaps, s counting equal roots as a match only when they are non-zero.
C25_TracebackConsistent ==
    (al_pc = "aligned" /\ alignment.some) =>
        LET H == Recurrence(TaskInput)
            best == FirstMaxCell(TaskInput, H)
            walk == Walk(TaskInput, H, best[1], best[2],
                         [pairs |-> <<>>, gaps |-> 0, sum |-> 0, ok |-> TRUE])
            scanned == MaxCell(DPMatrix(TaskInput), Len(window_a.lemma_ids),
                               Len(window_b.lemma_ids))
        IN /\ alignment.score = H[best[1], best[2]]
           /\ <<scanned.max_i, scanned.max_j>> = best
           /\ Len(alignment.aligned_pairs) > 0 =>
                  <<alignment.end_a, alignment.end_b>> = best
           /\ walk.ok
           /\ alignment.aligned_pairs = Reverse(walk.pairs)
           /\ alignment.gaps = walk.gaps
           /\ alignment.score = walk.sum
           /\ \A k \in 1..Len(alignment.aligned_pairs) :
                  LET i == alignment.aligned_pairs[k][1] + 1
                      j == alignment.aligned_pairs[k][2] + 1
                  IN (window_a.root_ids[i] = 0 /\ window_a.lemma_ids[i] # window_b.lemma_ids[j])
                         => MatchScoreAt(TaskInput, i, j) = params.mismatch_penalty

\* an accepted alignment with a gap, found where two cells hold the largest value
C25_Witness ==
    /\ al_pc = "aligned"
    /\ alignment.some
    /\ alignment.gaps > 0
    /\ Len(alignment.aligned_pairs) >= 2
    /\ LET H == Recurrence(TaskInput)
       IN \E c, d \in AllCells(TaskInput) :
              /\ c # d
              /\ H[c[1], c[2]] = alignment.score
              /\ H[d[1], d[2]] = alignment.score


StrictlyIncreasing(pairs) ==
    \A k \in 1..(Len(pairs) - 1) :
        pairs[k][1] < pairs[k + 1][1] /\ pairs[k][2] < pairs[k + 1][2]

\* the properties C26 names, of the alignment al of the task's input
WellShaped(al) ==
    LET H == Recurrence(TaskInput)
        best == FirstMaxCell(TaskInput, H)
    IN /\ StrictlyIncreasing(al.aligned_pairs)
       \* the first step is diagonal: the last pair is the cell the traceback starts at
       /\ Len(al.aligned_pairs) > 0
       /\ <<al.aligned_pairs[Len(al.aligned_pairs)][1] + 1,
            al.aligned_pairs[Len(al.aligned_pairs)][2] + 1>> = best
       \* the last step is diagonal: the walk halts at the predecessor of the first pair
       /\ H[al.aligned_pairs[1][1], al.aligned_pairs[1][2]] = 0
       /\ al.start_a < al.end_a
       /\ al.end_a <= Len(window_a.lemma_ids)
       /\ al.start_b < al.end_b
       /\ al.end_b <= Len(window_b.lemma_ids)
       /\ (al.end_a - al.start_a) + (al.end_b - al.start_b)
              = 2 * Len(al.aligned_pairs) + al.gaps

\* C26: for every returned alignment with gap_penalty < 0, aligned_pairs is strictly
\* increasing in both coordinates, the first and the last step of the traceback are
\* diagonal, start_a < end_a <= len(a) and start_b < end_b <= len(b), and the spans
\* account for every step: (end_a - start_a) + (end_b - start_b) is twice the number
\* of pairs plus the gaps.
C26_AlignmentShape ==
    (al_pc # "ready" /\ alignment.some /\ params.gap_penalty < 0) => WellShaped(alignment)


(***************************************************************************)
(* Properties of the edges of a comparison of paged books (SpecPaged).     *)
(***************************************************************************)
\* the edges the alignment tasks of comparison r yielded
RawEdges(r) == SelectSeq(c_edges[r], LAMBDA e : e.some)

\* the edges of comparison r at every stage: as built, as merged, as returned
StageEdges(r) ==
    {RawEdges(r)[k] : k \in 1..Len(RawEdges(r))}
        \cup (IF c_pc[r] = "returned"
              THEN LET merged == merge_overlapping_edges(RawEdges(r))
                   IN {merged[k] : k \in 1..Len(merged)} \cup
                      {c_result[r][k] : k \in 1..Len(c_result[r])}
              ELSE {})

\* C27: every edge, as built, as merged and as returned, has
\* 0 <= start < end <= total tokens of its book on both sides.
C27_EdgeBounds ==
    \A r \in DOMAIN c_pc :
        c_pc[r] \in {"aligning", "returned"} =>
            \A e \in StageEdges(r) :
                /\ 0 <= e.source_global_start
                /\ e.source_global_start < e.source_global_end
                /\ e.source_global_end <= c_streams[r].a.total_tokens
                /\ 0 <= e.target_global_start
                /\ e.target_global_start < e.target_global_end
                /\ e.target_global_end <= c_streams[r].b.total_tokens

\* a returned edge that two raw edges were merged into and that spans both books
C27_Witness ==
    /\ 1 \in DOMAIN c_pc
    /\ c_pc[1] = "returned"
    /\ Len(RawEdges(1)) >= 2
    /\ Len(c_result[1]) = 1
    /\ c_result[1][1].source_global_end = c_streams[1].a.total_tokens
    /\ c_result[1][1].source_global_start = 0
    /\ c_result[1][1].target_global_end = c_streams[1].b.total_tokens


(***************************************************************************)
(* The overlap merge on edges with room between them: up to MaxCoverEdges  *)
(* edges of one book pair whose ranges are two tokens long and start       *)
(* anywhere in books of MaxCoverPos tokens.  Edges of equal ranges differ  *)
(* in their id alone, so the lists are taken in order of position.         *)
(***************************************************************************)
CoverShapes ==
    {[tb |-> 2, ss |-> ss, se |-> ss + 2, ts |-> ts, te |-> ts + 2, subs |-> 0] :
        ss \in 0..(MaxCoverPos - 2), ts \in 0..(MaxCoverPos - 2)}

InPositionOrder(shs) ==
    \A k \in 1..(Len(shs) - 1) :
        \/ shs[k].ss < shs[k + 1].ss
        \/ shs[k].ss = shs[k + 1].ss /\ shs[k].ts <= shs[k + 1].ts

CoverInit ==
    /\ \E n \in 0..MaxCoverEdges : \E shs \in [1..n -> CoverShapes] :
           /\ InPositionOrder(shs)
           /\ m_edges = EdgeList(shs)
    /\ MergeStart

CoverNext == MergeOverlapping

SpecCover == CoverInit /\ [][CoverNext]_vars

(***************************************************************************)
(* Properties of the overlap merge on coverage (SpecCover).                *)
(***************************************************************************)
SourcePositions(edges) ==
    UNION {edges[k].source_global_start..(edges[k].source_global_end - 1) :
              k \in 1..Len(edges)}

TargetPositions(edges) ==
    UNION {edges[k].target_global_start..(edges[k].target_global_end - 1) :
              k \in 1..Len(edges)}

\* C28: merge_overlapping_edges preserves coverage exactly: the source positions the
\* output edges cover are those the input edges cover, likewise the target positions,
\* so the coverage of either book is the same before and after the merge.
C28_MergeKeepsCoverage ==
    m_pc = "merged" =>
        /\ SourcePositions(m_merged) = SourcePositions(m_edges)
        /\ TargetPositions(m_merged) = TargetPositions(m_edges)
        /\ calculate_coverage(m_merged, 1, MaxCoverPos)
               = calculate_coverage(m_edges, 1, MaxCoverPos)
        /\ calculate_coverage(m_merged, 2, MaxCoverPos)
               = calculate_coverage(m_edges, 2, MaxCoverPos)

\* a merge that folds two of three edges and leaves a source position between the
\* resulting edges uncovered
C28_Witness ==
    /\ m_pc = "merged"
    /\ Len(m_edges) = 3
    /\ Len(m_merged) = 2
    /\ \E p \in 1..(MaxCoverPos - 2) :
           /\ p \notin SourcePositions(m_merged)
           /\ p - 1 \in SourcePositions(m_merged)
           /\ p + 1 \in SourcePositions(m_merged)


(***************************************************************************)
(* Properties of the counts and ratios of result edges (SpecCompare).      *)
(***************************************************************************)
InUnit(x) == RatLe(RatZero, x) /\ RatLe(x, RatOne)

RatiosConsistent(e) ==
    /\ e.lemma_matches + e.substitutions <= e.aligned_length
    /\ InUnit(e.core_similarity)
    /\ InUnit(e.span_coverage)
    /\ InUnit(e.lemma_similarity)

StartOfPage(stream, page) ==
    LET k == CHOOSE k \in 1..Len(stream.pages) :
                 <<stream.pages[k].part_index, stream.pages[k].page_id>> = page
    IN SumSeq([i \in 1..(k - 1) |-> Len(stream.pages[i].lemma_ids)], 1)

\* C30: for every edge built from windows of a stream with several pages, each
\* endpoint's (page, offset) denotes the token of the global coordinate: start of
\* source_start_page + source_start_offset is source_global_start, and start of
\* source_end_page + source_end_offset is source_global_end - 1 or source_global_end,
\* likewise on the target side, and also after merging.
C30_PageCoordinates ==
    \A r \in DOMAIN c_pc :
        c_pc[r] \in {"aligning", "returned"} =>
            \A e \in StageEdges(r) :
                LET a == c_streams[r].a
                    b == c_streams[r].b
                IN /\ StartOfPage(a, e.source_start_page) + e.source_start_offset
                          = e.source_global_start
                   /\ StartOfPage(a, e.source_end_page) + e.source_end_offset
                          \in {e.source_global_end - 1, e.source_global_end}
                   /\ StartOfPage(b, e.target_start_page) + e.target_start_offset
                          = e.target_global_start
                   /\ StartOfPage(b, e.target_end_page) + e.target_end_offset
                          \in {e.target_global_end - 1, e.target_global_end}

\* the distances between the starts of the start page and of the end page of the
\* windows that end on the page
PageSpans(stream, windows, end_page) ==
    {StartOfPage(stream, windows[k].end_page) - StartOfPage(stream, windows[k].start_page) :
        k \in {j \in 1..Len(windows) : windows[j].end_page = end_page}}

\* C30 (amended): for every edge, also after merging, start of source_start_page +
\* source_start_offset is source_global_start, and start of source_end_page +
\* source_end_offset is source_global_end + d, d the distance between the starts of the
\* start page and the end page of a window ending on that page: source_global_end
\* when the window lies on one page, more when it spans pages; likewise the target.
C30_PageCoordinatesOfWindow ==
    \A r \in DOMAIN c_pc :
        c_pc[r] \in {"aligning", "returned"} =>
            \A e \in StageEdges(r) :
                LET a == c_streams[r].a
                    b == c_streams[r].b
                IN /\ StartOfPage(a, e.source_start_page) + e.source_start_offset
                          = e.source_global_start
                   /\ StartOfPage(a, e.source_end_page) + e.source_end_offset
                          - e.source_global_end
                          \in PageSpans(a, c_windows[r].a, e.source_end_page)
                   /\ StartOfPage(b, e.target_start_page) + e.target_start_offset
                          = e.target_global_start
                   /\ StartOfPage(b, e.target_end_page) + e.target_end_offset
                          - e.target_global_end
                          \in PageSpans(b, c_windows[r].b, e.target_end_page)

\* a returned merged edge whose source end, taken from a window that spans two pages,
\* lies past source_global_end, and whose target end is target_global_end
C30_Witness ==
    /\ 1 \in DOMAIN c_pc
    /\ c_pc[1] = "returned"
    /\ Len(RawEdges(1)) >= 2
    /\ \E k \in 1..Len(c_result[1]) :
           LET e == c_result[1][k]
           IN /\ StartOfPage(c_streams[1].a, e.source_end_page) + e.source_end_offset
                     > e.source_global_end
              /\ StartOfPage(c_streams[1].b, e.target_end_page) + e.target_end_offset
                     = e.target_global_end
              /\ \A j \in 1..Len(c_edges[1]) : c_edges[1][j] # e

====
